---- MODULE Spec2Model ----
(***************************************************************************)
(* A model of dymaxilang: the single-pass compiler (lexer, Pratt parser,   *)
(* bytecode emission), the stack VM and its mark-and-sweep collector.      *)
(*                                                                         *)
(* The build modelled is the default one: the cargo features               *)
(* local_map_scopes, clobber_gc, debug_gc, trace_execution and decompile   *)
(* are off.                                                                *)
(*                                                                         *)
(* Representation.                                                         *)
(*   - A Value is a record [tag, n, d]: tag "float" is the rational n/d    *)
(*     (d = 0 stands for the infinities and NaN), tag "bool" has n = 1 for *)
(*     true, tag "obj" has n = the object's address.                       *)
(*   - An object's address is its index in GC.objects (free_slots is never *)
(*     filled by the code, so an index is never reused).  A freed object   *)
(*     is the record None.  Reading or writing through the address of a    *)
(*     freed object is undefined behaviour: the machine then enters the    *)
(*     status "undefined", which stands for every outcome the build can    *)
(*     produce and about which nothing is asserted.                        *)
(*   - Source text and string objects are TLA+ strings.                    *)
(***************************************************************************)
EXTENDS Integers, Sequences, FiniteSets, TLC

VARIABLES
    source,     \* the program text handed to Compiler::new
    files,      \* the file system the `read` native sees: path -> text
    status,     \* "start" | "running" | "done" | "runtime_error" |
                \* "compile_error" | "panic" | "hang" | "undefined"
    frames,     \* VM.frames
    gc,         \* VM.gc
    stack,      \* VM.stack
    globals,    \* VM.globals
    ip,         \* run()'s cached instruction pointer (offset into the chunk)
    sp,         \* run()'s cached stack top (offset from the stack base)
    out,        \* what print has written to stdout, one line per element
    log,        \* history: one record per collection run so far
    calls,      \* history: one record per live call frame above frame 0
    writes,     \* history: one record per insertion into the keyed-map
                \* store, with the keys as they were when inserted
    chunks,     \* history: the chunks the compiler finished, with the
                \* forward jumps emitted into each and the patches made
    errors,     \* the compile errors reported, in order
    compiler,   \* the Compiler: parser, function_stack, and the VM it builds
    rule_stack, \* the rules of the parser that have not returned
    built,      \* the last Value a constructor built, with its 64-bit
                \* pattern (used where the encoding itself is examined)
    lexed       \* a Lexer of its own and the results of its next_token
                \* calls so far (used where the lexer itself is examined)

vars ==
    <<source, files, status, frames, gc, stack, globals, ip, sp, out, log, calls,
      writes, chunks, errors, compiler, rule_stack, built, lexed>>

(***************************************************************************)
(* Values (vm/value.rs)                                                    *)
(***************************************************************************)
Value(t, n, d) == [tag |-> t, n |-> n, d |-> d]

UNDEF == Value("undef", 0, 0)
NULL == Value("null", 0, 0)
Value_TRUE == Value("bool", 1, 0)
Value_FALSE == Value("bool", 0, 0)

Abs(x) == IF x < 0 THEN -x ELSE x

RECURSIVE Gcd(_, _)
Gcd(a, b) == IF b = 0 THEN a ELSE Gcd(b, a % b)

\* f64 as a normalised rational: n/d with d > 0, or d = 0 for inf / NaN.
Value_float(n, d) ==
    IF d = 0 THEN Value("float", IF n > 0 THEN 1 ELSE IF n < 0 THEN -1 ELSE 0, 0)
    ELSE LET g == Gcd(Abs(n), Abs(d))
             s == IF d < 0 THEN -1 ELSE 1
         IN Value("float", (s * n) \div g, (s * d) \div g)

Value_bool(b) == IF b THEN Value_TRUE ELSE Value_FALSE

Value_obj(p) == Value("obj", p, 0)

is_float(v) == v.tag = "float"
is_bool(v) == v.tag = "bool"
is_null(v) == v = NULL
is_undef(v) == v = UNDEF
is_obj(v) == v.tag = "obj"
as_bool(v) == v = Value_TRUE
as_obj(v) == v.n

(***************************************************************************)
(* The 64-bit encoding of a Value (vm/value.rs).  A u64 is the set of the   *)
(* positions of its one bits, bit 0 being the least significant: `&` is    *)
(* intersection, `|` is union, `!` is the complement in 0..63.  An f64 is  *)
(* its bit pattern: sign 63, exponent 62..52, mantissa 51..0.              *)
(* Unions are written with their operands in ascending order of bits, so   *)
(* that every set is built in its normal form.                             *)
(***************************************************************************)
U64Bits == 0..63

\* 0x8000000000000000
SIGN_BIT == {63}

\* 0x7ffc000000000000
QNAN == 50..62

TAG_UNDEF == {2}

TAG_NULL == {0}

TAG_FALSE == {1}

TAG_TRUE == {0, 1}

Bits_UNDEF == TAG_UNDEF \cup QNAN

Bits_NULL == TAG_NULL \cup QNAN

Bits_TRUE == TAG_TRUE \cup QNAN

Bits_FALSE == TAG_FALSE \cup QNAN

\* mem::transmute(value): the pattern of the f64 is the pattern of the Value.
Bits_float(x) == x

Bits_bool(b) == IF b THEN Bits_TRUE ELSE Bits_FALSE

\* SIGN_BIT | QNAN | obj.common as u64
Bits_obj(p) == p \cup (QNAN \cup SIGN_BIT)

Bits_is_float(v) == v \cap QNAN # QNAN

\* A test that takes every quiet-NaN pattern for a boolean.
Bits_is_nan_boxed(v) == v \cap QNAN = QNAN

Bits_is_bool(v) == v \cup {0} = Bits_TRUE

Bits_is_null(v) == v = Bits_NULL

Bits_is_undef(v) == v = Bits_UNDEF

Bits_is_obj(v) == v \cap (QNAN \cup SIGN_BIT) = QNAN \cup SIGN_BIT

\* f64::from_bits(self.value)
Bits_as_float(v) == v

Bits_as_bool(v) == v = Bits_TRUE

\* self.value & !(SIGN_BIT | QNAN)
Bits_as_obj(v) == v \cap (U64Bits \ (QNAN \cup SIGN_BIT))

(***************************************************************************)
(* Heap objects (vm/object.rs)                                             *)
(***************************************************************************)
None == [kind |-> "None", mark |-> FALSE, value |-> "", arity |-> 0,
         stack_effect |-> 0, code |-> <<>>, constants |-> <<>>, lines |-> <<>>]

ObjString_new(value) == [None EXCEPT !.kind = "String", !.value = value]

ObjFunction_new == [None EXCEPT !.kind = "Function", !.stack_effect = 10]

ObjNative_new(function) == [None EXCEPT !.kind = "Native", !.value = function]

SizeOfObjString == 24
SizeOfObjFunction == 96
SizeOfObjNative == 16

\* Chunk::size is not in the source tree: the bytes of the code, of the line
\* table (u32 per byte) and of the constant pool (8 bytes per value).
Chunk_size(o) == Len(o.code) + 4 * Len(o.lines) + 8 * Len(o.constants)

Obj_size(o) ==
    CASE o.kind = "String" -> Len(o.value) + SizeOfObjString
      [] o.kind = "Function" -> Chunk_size(o) + SizeOfObjFunction
      [] o.kind = "Native" -> SizeOfObjNative

(***************************************************************************)
(* The collector (vm/gc.rs) and the VM's use of it (vm/mod.rs).            *)
(* The operators below take and return the machine as one record r with    *)
(* the fields frames, gc, stack, globals, ip, sp, status, out, log, ret    *)
(* (ret: the value a function returns).                                    *)
(***************************************************************************)
GC_new == [objects |-> <<>>, free_slots |-> <<>>, greys |-> <<>>,
           bytes_allocated |-> 0, next_gc |-> 1024 * 1024]

HEAP_GROW_FACTOR == 2

Undefined(r) == [r EXCEPT !.status = "undefined"]

Ok(r) == r.status \notin {"undefined", "runtime_error", "panic"}

\* Whether address p is the address of an allocated object.
Allocated(g, p) == p \in 1..Len(g.objects) /\ g.objects[p].kind # "None"

\* impl<T: Into<Obj>> GCMark for T
mark_obj(r, p) ==
    IF ~Ok(r) THEN r
    ELSE IF ~Allocated(r.gc, p) THEN Undefined(r)
    ELSE IF ~r.gc.objects[p].mark
         THEN [r EXCEPT !.gc.objects[p].mark = TRUE,
                        !.gc.greys = Append(@, p)]
         ELSE r

\* impl GCMark for Value
mark_value(r, v) == IF is_obj(v) THEN mark_obj(r, as_obj(v)) ELSE r

RECURSIVE mark_all(_, _)
mark_all(r, vs) ==
    IF vs = <<>> THEN r ELSE mark_all(mark_value(r, Head(vs)), Tail(vs))

\* The live stack slots, bottom first: base .. top.
StackSlots(st, top) == [i \in 1..top |-> st.mem[i - 1]]

\* mark_roots without its loop over the call frames.
mark_roots_without_frames(r) ==
    mark_all(mark_all(r, StackSlots(r.stack, r.stack.top)), r.globals.globals)

mark_roots(r) ==
    LET r1 == mark_all(r, StackSlots(r.stack, r.stack.top))
        r2 == mark_all(r1, [i \in 1..Len(r.frames) |->
                               Value_obj(r.frames[i].function)])
    IN mark_all(r2, r.globals.globals)

\* The match in trace has the single arm ObjKind::String => (): no object's
\* outgoing references are followed, whatever its kind.
RECURSIVE GC_trace(_)
GC_trace(g) ==
    IF g.greys = <<>> THEN g
    ELSE GC_trace([g EXCEPT !.greys = SubSeq(@, 1, Len(@) - 1)])

RECURSIVE sweep_from(_, _)
sweep_from(g, i) ==
    IF i > Len(g.objects) THEN g
    ELSE LET o == g.objects[i]
         IN IF o.kind = "None" THEN sweep_from(g, i + 1)
            ELSE IF o.mark
                 THEN sweep_from([g EXCEPT !.objects[i].mark = FALSE], i + 1)
                 ELSE sweep_from([g EXCEPT !.bytes_allocated = @ - Obj_size(o),
                                           !.objects[i] = None], i + 1)

\* sweep leaving the mark of every survivor set.
sweep_keeping_marks(g) ==
    LET g2 == sweep_from(g, 1)
    IN [g2 EXCEPT !.objects = [p \in DOMAIN g2.objects |->
                                 [g2.objects[p] EXCEPT !.mark = g.objects[p].mark]]]

GC_sweep(g) == sweep_from(g, 1)

\* collect that doubles the threshold it found.
collect_doubling(g) ==
    LET g2 == GC_sweep(GC_trace(g))
    IN [g2 EXCEPT !.next_gc = g.next_gc * HEAP_GROW_FACTOR]

GC_collect(g) ==
    LET g2 == GC_sweep(GC_trace(g))
    IN [g2 EXCEPT !.next_gc = g2.bytes_allocated * HEAP_GROW_FACTOR]

should_gc(g) == g.bytes_allocated > g.next_gc

RECURSIVE free_from(_, _)
free_from(g, i) ==
    IF i > Len(g.objects) THEN g
    ELSE free_from([g EXCEPT !.objects[i] = None], i + 1)

\* free_everything that frees nothing.
free_nothing(g) == g

free_everything(g) == free_from(g, 1)

\* impl<T> GCAlloc<T> for T; the address of the new object is left in ret.
GCAlloc_alloc(r, obj) ==
    LET g == [r.gc EXCEPT !.bytes_allocated = @ + Obj_size(obj)]
    IN IF g.free_slots # <<>>
       THEN LET i == g.free_slots[Len(g.free_slots)]
            IN [r EXCEPT !.gc = [g EXCEPT !.free_slots = SubSeq(@, 1, Len(@) - 1),
                                          !.objects[i] = obj],
                         !.ret = i]
       ELSE [r EXCEPT !.gc = [g EXCEPT !.objects = Append(@, obj)],
                      !.ret = Len(g.objects) + 1]

(***************************************************************************)
(* History of collections.  Every collection appends one record to r.log:  *)
(* what was referenced from where when it started, and what it left.       *)
(***************************************************************************)
Addrs(vs) == {vs[i].n : i \in {j \in DOMAIN vs : vs[j].tag = "obj"}}

AllocatedSet(g) == {p \in 1..Len(g.objects) : g.objects[p].kind # "None"}

\* The addresses in the constant pools of the allocated functions among ps.
ConstsOf(g, ps) ==
    UNION {Addrs(g.objects[p].constants) :
             p \in {q \in ps : Allocated(g, q) /\ g.objects[q].kind = "Function"}}

RECURSIVE ReachClosure(_, _)
ReachClosure(g, ps) ==
    LET more == ps \cup ConstsOf(g, ps)
    IN IF more = ps THEN ps ELSE ReachClosure(g, more)

MapAddrs(gm) ==
    UNION {Addrs(<<gm[i].k>>) \cup
           UNION {Addrs(<<gm[i].m[j].k, gm[i].m[j].v>>) : j \in DOMAIN gm[i].m}
             : i \in DOMAIN gm}

RECURSIVE SumSizes(_, _)
SumSizes(g, ps) ==
    IF ps = {} THEN 0
    ELSE LET p == CHOOSE q \in ps : TRUE
         IN Obj_size(g.objects[p]) + SumSizes(g, ps \ {p})

MarkedSet(g) == {p \in AllocatedSet(g) : g.objects[p].mark}

\* r is the machine when the collection starts, marked the collector after
\* mark_roots, after the collector the collection leaves.
GcRecord(r, marked, after) ==
    LET on_stack == Addrs(StackSlots(r.stack, r.sp))
        in_frames == {r.frames[i].function : i \in DOMAIN r.frames}
        direct == on_stack \cup in_frames \cup Addrs(r.globals.globals)
        inmap == MapAddrs(r.globals.global_map)
        before == AllocatedSet(r.gc)
        live == AllocatedSet(after)
    IN [on_stack |-> on_stack,
        in_frames |-> in_frames,
        direct |-> direct,
        inmap |-> inmap,
        reach_direct |-> ReachClosure(r.gc, direct),
        reach |-> ReachClosure(r.gc, direct \cup inmap),
        before |-> before,
        after |-> live,
        marked |-> MarkedSet(marked),
        marked_after |-> MarkedSet(after),
        greys_after |-> Len(after.greys),
        bytes_before |-> r.gc.bytes_allocated,
        bytes_after |-> after.bytes_allocated,
        freed_bytes |-> SumSizes(r.gc, before \ live),
        next_gc_before |-> r.gc.next_gc,
        next_gc_after |-> after.next_gc]

run_gc(r) ==
    IF ~Ok(r) \/ ~should_gc(r.gc) THEN r
    ELSE LET r1 == mark_roots(r)
         IN IF ~Ok(r1) THEN r1
            ELSE LET g2 == GC_collect(r1.gc)
                 IN [r1 EXCEPT !.gc = g2, !.log = Append(@, GcRecord(r, r1.gc, g2))]

\* VM::alloc; the address of the new object is left in ret.
alloc_after_gc(r, obj) == IF ~Ok(r) THEN r ELSE GCAlloc_alloc(r, obj)

VM_alloc(r, obj) == alloc_after_gc(run_gc(r), obj)

(***************************************************************************)
(* Stack (vm/stack.rs): mem maps the slots written so far to their values. *)
(***************************************************************************)
Stack_new == [mem |-> <<>>, top |-> 0, max_use |-> 0, capacity |-> 256]

\* A raw write to slot i; beyond the allocation it is undefined behaviour.
slot_write(r, i, v) ==
    IF ~Ok(r) THEN r
    ELSE IF i < 0 \/ i >= r.stack.capacity THEN Undefined(r)
    ELSE [r EXCEPT !.stack.mem =
            [j \in (DOMAIN r.stack.mem) \cup {i} |->
                IF j = i THEN v ELSE r.stack.mem[j]]]

\* A raw read of slot i, left in ret; a slot never written is uninitialised.
slot_read(r, i) ==
    IF ~Ok(r) THEN r
    ELSE IF i \notin DOMAIN r.stack.mem THEN Undefined(r)
    ELSE [r EXCEPT !.ret = r.stack.mem[i]]

Stack_push(r, val) ==
    LET r1 == slot_write(r, r.stack.top, val)
    IN IF ~Ok(r1) THEN r1 ELSE [r1 EXCEPT !.stack.top = @ + 1]

allocate_slots(st, slots) ==
    LET m == st.max_use + slots
    IN IF m > st.capacity
       THEN [st EXCEPT !.max_use = m, !.capacity = st.capacity * 2]
       ELSE [st EXCEPT !.max_use = m]

free_slots(st, slots) == [st EXCEPT !.max_use = @ - slots]

(***************************************************************************)
(* Globals (vm/globals.rs).  global_map, which vm/mod.rs and natives.rs    *)
(* use, is a sequence of entries [k, m], m a sequence of entries [k, v].   *)
(***************************************************************************)
Globals_new == [globals |-> <<>>, global_names |-> <<>>, global_map |-> <<>>]

Globals_get(gl, idx) == gl.globals[idx + 1]

Globals_set(gl, idx, value) == [gl EXCEPT !.globals[idx + 1] = value]

\* global_names is the sequence of <<name, idx>> pairs inserted so far.
name_lookup(names, name) ==
    LET hits == {i \in DOMAIN names : names[i][1] = name}
    IN IF hits = {} THEN -1 ELSE names[CHOOSE i \in hits : TRUE][2]

\* The index is left in ret.
get_global_idx(r, name) ==
    LET found == name_lookup(r.globals.global_names, name)
    IN IF found >= 0 THEN [r EXCEPT !.ret = found]
       ELSE LET len == Len(r.globals.globals) % 256
            IN [r EXCEPT !.globals.global_names = Append(@, <<name, len>>),
                         !.globals.globals = Append(@, UNDEF),
                         !.ret = len]

(***************************************************************************)
(* Lexer (compiler/lexer/mod.rs, token.rs).  A char is a string of length  *)
(* one; "" is the '\0' that peek returns at and beyond the end of the      *)
(* text.  A TokenKind is the name of its variant.  next_token leaves in    *)
(* ret either a token [ok = TRUE, kind, line, start, end] or an error      *)
(* [ok = FALSE, msg]; hang records a loop of the lexer that never ends.    *)
(***************************************************************************)
OpKind == {"Bang", "Plus", "Minus", "Mul", "Div", "Equal", "DoubleEqual",
           "BangEqual", "GreaterEqual", "LessEqual", "Greater", "Less", "And",
           "Or", "OpenParen", "CloseParen", "OpenSquare", "CloseSquare"}

AtomKind == {"Ident", "Number", "String", "True", "False", "Null", "Fn"}

Token_new(kind, line, start, end) ==
    [ok |-> TRUE, kind |-> kind, line |-> line, start |-> start, end |-> end,
     msg |-> ""]

Err(msg) ==
    [ok |-> FALSE, kind |-> "", line |-> 0, start |-> 0, end |-> 0, msg |-> msg]

\* &program[start..end]; a range outside the text panics in the source.
Slice(program, start, end) == SubSeq(program, start + 1, end)

lexeme_str(token, program) == Slice(program, token.start, token.end)

Lexer_new(program) ==
    [program |-> program, start |-> 0, position |-> 0, line |-> 1,
     lines |-> <<0>>, hang |-> FALSE, ret |-> Err("")]

is_alpha(c) ==
    c \in {"A", "B", "C", "D", "E", "F", "G", "H", "I", "J", "K", "L", "M",
           "N", "O", "P", "Q", "R", "S", "T", "U", "V", "W", "X", "Y", "Z",
           "a", "b", "c", "d", "e", "f", "g", "h", "i", "j", "k", "l", "m",
           "n", "o", "p", "q", "r", "s", "t", "u", "v", "w", "x", "y", "z",
           "_"}

is_numeric(c) == c \in {"0", "1", "2", "3", "4", "5", "6", "7", "8", "9"}

is_alphanumeric(c) == is_alpha(c) \/ is_numeric(c)

is_whitespace(c) == c \in {" ", "\t", "\r", "\f"}

\* peek that takes the last byte of the text for its end.
peek_short(lx) ==
    IF lx.position + 1 < Len(lx.program)
    THEN SubSeq(lx.program, lx.position + 1, lx.position + 1)
    ELSE ""

Lexer_peek(lx) ==
    IF lx.position < Len(lx.program)
    THEN SubSeq(lx.program, lx.position + 1, lx.position + 1)
    ELSE ""

\* advance: the char read is Lexer_peek of the lexer before the call.
Lexer_advance(lx) == [lx EXCEPT !.position = @ + 1]

\* check: TRUE iff the lexer returned differs from lx.
Lexer_check(lx, c) == IF c = Lexer_peek(lx) THEN Lexer_advance(lx) ELSE lx

make_token(lx, kind) ==
    [lx EXCEPT !.ret = Token_new(kind, lx.line, lx.start, lx.position)]

check_keyword(identifier, start, rest, kind) ==
    IF Slice(identifier, start, Len(identifier)) = rest THEN kind ELSE "Ident"

identifier_type(lx) ==
    LET identifier == Slice(lx.program, lx.start, lx.position)
        c1 == SubSeq(identifier, 1, 1)
        c2 == IF Len(identifier) >= 2 THEN SubSeq(identifier, 2, 2) ELSE ""
    IN CASE c1 = "e" -> check_keyword(identifier, 1, "lse", "Else")
         [] c1 = "f" ->
              (CASE c2 = "a" -> check_keyword(identifier, 2, "lse", "False")
                 [] c2 = "n" -> "Fn"
                 [] c2 = "o" -> check_keyword(identifier, 2, "r", "For")
                 [] OTHER -> "Ident")
         [] c1 = "i" ->
              (CASE c2 = "f" -> "If"
                 [] c2 = "n" -> "In"
                 [] OTHER -> "Ident")
         [] c1 = "l" -> check_keyword(identifier, 1, "et", "Let")
         [] c1 = "n" -> check_keyword(identifier, 1, "ull", "Null")
         [] c1 = "r" -> check_keyword(identifier, 1, "eturn", "Return")
         [] c1 = "t" -> check_keyword(identifier, 1, "rue", "True")
         [] c1 = "w" -> check_keyword(identifier, 1, "hile", "While")
         [] OTHER -> "Ident"

RECURSIVE skip_alphanumeric(_)
skip_alphanumeric(lx) ==
    IF is_alphanumeric(Lexer_peek(lx)) THEN skip_alphanumeric(Lexer_advance(lx))
    ELSE lx

RECURSIVE skip_numeric(_)
skip_numeric(lx) ==
    IF is_numeric(Lexer_peek(lx)) THEN skip_numeric(Lexer_advance(lx)) ELSE lx

Lexer_identifier(lx) ==
    LET l1 == skip_alphanumeric(lx) IN make_token(l1, identifier_type(l1))

Lexer_number(lx) ==
    LET l1 == skip_numeric(lx)
        l2 == Lexer_check(l1, ".")
    IN make_token(IF l2 # l1 THEN skip_numeric(l2) ELSE l1, "Number")

\* The chars the loop of Lexer::string is yet to read, as offsets into the
\* text: the loop stops before the first '"' among them, or at the end of
\* the text, and counts the newlines it advances over.
unread(lx, ch) ==
    {i \in lx.position .. Len(lx.program) - 1 :
        SubSeq(lx.program, i + 1, i + 1) = ch}

Lexer_string(lx) ==
    LET quotes == unread(lx, "\"")
        stop == IF quotes = {} THEN Len(lx.program)
                ELSE CHOOSE i \in quotes : \A j \in quotes : i <= j
        newlines == {i \in unread(lx, "\n") : i < stop}
        l1 == [lx EXCEPT !.position = stop, !.line = @ + Cardinality(newlines)]
    IN IF quotes = {} THEN [l1 EXCEPT !.ret = Err("string not closed")]
       ELSE make_token(Lexer_advance(l1), "String")

\* while self.peek() != '\n' { self.advance(); }: at the end of the text peek
\* returns '\0' for ever and the loop never ends.
RECURSIVE skip_comment(_)
skip_comment(lx) ==
    IF Lexer_peek(lx) = "\n" THEN lx
    ELSE IF lx.position >= Len(lx.program) THEN [lx EXCEPT !.hang = TRUE]
    ELSE skip_comment(Lexer_advance(lx))

\* One of the two-character operators: kind2 if the next char is second.
two_char(lx, second, kind2, kind1) ==
    LET l1 == Lexer_check(lx, second)
    IN IF l1 # lx THEN make_token(l1, kind2) ELSE make_token(lx, kind1)

\* `&&` and `||`: the second char is consumed whatever it is.
doubled(lx, c, kind, msg) ==
    IF Lexer_peek(lx) # c THEN [Lexer_advance(lx) EXCEPT !.ret = Err(msg)]
    ELSE make_token(Lexer_advance(lx), kind)

SingleChar ==
    [c \in {"+", "-", "*", "(", ")", "[", "]", "{", "}", ";", ","} |->
        CASE c = "+" -> "Plus" [] c = "-" -> "Minus" [] c = "*" -> "Mul"
          [] c = "(" -> "OpenParen" [] c = ")" -> "CloseParen"
          [] c = "[" -> "OpenSquare" [] c = "]" -> "CloseSquare"
          [] c = "{" -> "OpenBrace" [] c = "}" -> "CloseBrace"
          [] c = ";" -> "SemiColon" [] c = "," -> "Comma"]

RECURSIVE next_token(_)
next_token(lx0) ==
    LET ls == [lx0 EXCEPT !.start = lx0.position]
        c == Lexer_peek(ls)
        lx == Lexer_advance(ls)
    IN CASE c \in DOMAIN SingleChar -> make_token(lx, SingleChar[c])
         [] c = "/" ->
              LET l1 == Lexer_check(lx, "/")
              IN IF l1 # lx
                 THEN LET l2 == skip_comment(l1)
                      IN IF l2.hang THEN l2 ELSE next_token(l2)
                 ELSE make_token(lx, "Div")
         [] c = "=" -> two_char(lx, "=", "DoubleEqual", "Equal")
         [] c = "!" -> two_char(lx, "=", "BangEqual", "Bang")
         [] c = ">" -> two_char(lx, "=", "GreaterEqual", "Greater")
         [] c = "<" -> two_char(lx, "=", "LessEqual", "Less")
         [] c = "&" -> doubled(lx, "&", "And", "use '&&' not '&'")
         [] c = "|" -> doubled(lx, "|", "Or", "use '||' not '|'")
         [] is_alpha(c) -> Lexer_identifier(lx)
         [] is_numeric(c) -> Lexer_number(lx)
         [] c = "\"" -> Lexer_string(lx)
         [] c = "\n" ->
              next_token([lx EXCEPT !.line = @ + 1,
                                    !.lines = Append(@, lx.position)])
         [] c = "" -> make_token(lx, "Eof")
         [] is_whitespace(c) -> next_token(lx)
         [] OTHER -> [lx EXCEPT !.ret = Err("unrecognised token")]

get_token_string(lx, token) == Slice(lx.program, token.start, token.end)

(***************************************************************************)
(* Parser (compiler/mod.rs).  The compiler is one record c:                *)
(*   vm              the VM under construction (the record r above)        *)
(*   parser          lexer, previous, current, had_error, handling_error   *)
(*   function_stack  the CompilingFunction records, innermost last         *)
(*   status          "ok" | "panic" (a Rust panic) | "hang" (a loop that   *)
(*                   never ends)                                           *)
(*   errors          the diagnostics printed, in order                     *)
(*   scopes          history: for every scope closed, what begin_scope     *)
(*                   found and what end_scope did                          *)
(*   finished        history: for every chunk finished, its code, the      *)
(*                   forward jumps emitted into it, the jumps patched in   *)
(*                   it and the emit position at each patch                *)
(* previous = NoToken is Option::None.                                     *)
(***************************************************************************)
NoToken == Err("")

Halted(c) == c.status # "ok" \/ ~Ok(c.vm)

Panic(c) == [c EXCEPT !.status = "panic"]

\* The offset of the first '\n' at or after offset from, or -1.
RECURSIVE find_newline(_, _)
find_newline(program, from) ==
    IF from >= Len(program) THEN -1
    ELSE IF SubSeq(program, from + 1, from + 1) = "\n" THEN from
    ELSE find_newline(program, from + 1)

error_at(c, start, end, line, message) ==
    IF Halted(c) \/ c.parser.handling_error THEN c
    ELSE LET lines == c.parser.lexer.lines
             program == c.parser.lexer.program
         IN IF line < 1 \/ line > Len(lines) THEN Panic(c)
            ELSE LET line_start == lines[line]
                     nl == find_newline(program, line_start)
                     line_end == IF Len(lines) > line THEN lines[line + 1]
                                 ELSE IF nl >= 0 THEN nl + 1
                                 ELSE Len(program)
                 IN IF line_start > line_end \/ line_end > Len(program)
                    THEN Panic(c)
                    ELSE [c EXCEPT !.parser.handling_error = TRUE,
                                   !.parser.had_error = TRUE,
                                   !.errors = Append(@, message)]

error_bad_token(c, message) ==
    IF Halted(c) THEN c
    ELSE IF ~c.parser.previous.ok THEN Panic(c)
    ELSE error_at(c, c.parser.previous.end, c.parser.previous.end + 1,
                  c.parser.previous.line, message)

Parser_error(c, message) ==
    IF Halted(c) THEN c
    ELSE IF ~c.parser.previous.ok THEN Panic(c)
    ELSE error_at(c, c.parser.previous.start, c.parser.previous.end,
                  c.parser.previous.line, message)

\* The loop of advance: lex until a token comes, reporting every failure.
RECURSIVE advance_loop(_)
\* One turn of the loop, lx being the lexer after next_token.
advance_token(c, lx) ==
    IF lx.hang THEN [c EXCEPT !.parser.lexer = lx, !.status = "hang"]
    ELSE IF lx.ret.ok THEN [c EXCEPT !.parser.lexer = lx, !.parser.current = lx.ret]
    ELSE advance_loop(error_bad_token([c EXCEPT !.parser.lexer = lx], lx.ret.msg))

advance_loop(c) ==
    IF Halted(c) THEN c ELSE advance_token(c, next_token(c.parser.lexer))

Parser_advance(c) ==
    IF Halted(c) THEN c
    ELSE advance_loop([c EXCEPT !.parser.previous = c.parser.current])

consume(c, kind, error_message) ==
    IF Halted(c) THEN c
    ELSE Parser_advance(IF c.parser.current.kind # kind
                        THEN error_bad_token(c, error_message)
                        ELSE c)

compare_next(c, kind) == c.parser.current.kind = kind

\* check: the token was consumed iff compare_next held of c.
Parser_check(c, kind) == IF compare_next(c, kind) THEN Parser_advance(c) ELSE c

RECURSIVE sync_loop(_, _)
sync_loop(c, scope_count) ==
    IF Halted(c) \/ c.parser.current.kind = "Eof" THEN c
    ELSE IF ~c.parser.previous.ok THEN Panic(c)
    ELSE LET pk == c.parser.previous.kind
             ck == c.parser.current.kind
             count == CASE pk = "OpenBrace" -> scope_count + 1
                        [] pk = "CloseBrace" -> scope_count - 1
                        [] OTHER -> scope_count
         IN IF pk = "SemiColon" /\ scope_count = 0 THEN c
            ELSE IF pk = "CloseBrace" /\ count <= 0
                 THEN Parser_check(c, "SemiColon")
            ELSE IF ck \in {"While", "For", "If", "Return", "Let"} THEN c
            ELSE sync_loop(Parser_advance(c), count)

sync(c) ==
    IF Halted(c) THEN c
    ELSE sync_loop([c EXCEPT !.parser.handling_error = FALSE], 0)

\* Parser::new, the fields of the parser: the first token is unwrapped.
Parser_new(program) ==
    LET lx == next_token(Lexer_new(program))
    IN [lexer |-> lx, previous |-> NoToken,
        current |-> lx.ret, had_error |-> FALSE, handling_error |-> FALSE]

(***************************************************************************)
(* Chunk (vm/chunk.rs).  The chunk is the code, constants and lines fields *)
(* of its function object o.  The OpCode enum of the source tree predates  *)
(* the opcodes the compiler and the VM use; the numbering here follows the *)
(* opcode table of the specification.                                      *)
(***************************************************************************)
OpNames ==
    <<"LoadConstant", "LoadConstantExt", "Null", "Pop", "Add", "Sub", "Mul",
      "Div", "Equal", "NotEqual", "Greater", "GreaterEqual", "Less",
      "LessEqual", "Not", "Negate", "DefineGlobal", "GetGlobal", "SetGlobal",
      "GetLocal", "SetLocal", "GetMap", "SetMap", "PushMap", "PopMap", "Jump",
      "JumpUp", "JumpIfFalse", "JumpIfFalseNoPop", "JumpIfTrueNoPop", "Call",
      "Return">>

OpCode(name) == (CHOOSE i \in DOMAIN OpNames : OpNames[i] = name) - 1

\* push_byte(byte, line), as the compiler calls it.
Chunk_push_byte(o, byte, line) ==
    [o EXCEPT !.code = Append(@, byte), !.lines = Append(@, line)]

\* self.constants.len() as u8 - 1
add_constant_idx(len) == ((len % 256) + 255) % 256

add_constant(o, constant) == [o EXCEPT !.constants = Append(@, constant)]

jump_target(o) == Len(o.code)

\* let offset = (len - jump_idx - 1) as u8; self.code[jump_idx] = offset;
Chunk_patch_jump(o, jump_idx) ==
    [o EXCEPT !.code[jump_idx + 1] = (Len(o.code) - jump_idx - 1) % 256]

(***************************************************************************)
(* Compiler (compiler/mod.rs): emission.                                   *)
(***************************************************************************)
CompilingFunction_new(is_function) ==
    [function |-> ObjFunction_new, locals |-> <<>>, scope_depth |-> 0,
     current_stack_effect |-> 10, peak_stack_effect |-> 10,
     is_function |-> is_function, jumps |-> <<>>, patches |-> <<>>,
     targets |-> <<>>, loops |-> <<>>, consts |-> <<>>, open |-> <<>>,
     most_locals |-> 0, stmts |-> <<>>]

\* The index of the innermost compiling function.
Cur(c) == Len(c.function_stack)

CurFn(c) == c.function_stack[Cur(c)]

chunk(c) == CurFn(c).function

locals(c) == CurFn(c).locals

scope_depth(c) == CurFn(c).scope_depth

push_byte(c, byte) ==
    IF Halted(c) THEN c
    ELSE IF ~c.parser.previous.ok THEN Panic(c)
    ELSE [c EXCEPT !.function_stack[Cur(c)].function =
                      Chunk_push_byte(@, byte, c.parser.previous.line)]

push_opcode(c, op) == push_byte(c, OpCode(op))

push_bytes2(c, op, byte) == push_byte(push_opcode(c, op), byte)

\* consts is history: the constants added, in order, each with the place
\* its load was emitted at.
push_constant(c, constant) ==
    IF Halted(c) THEN c
    ELSE LET idx == add_constant_idx(Len(chunk(c).constants) + 1)
             c1 == [c EXCEPT !.function_stack[Cur(c)].function =
                                add_constant(@, constant),
                             !.function_stack[Cur(c)].consts =
                                Append(@, [at |-> jump_target(chunk(c)),
                                           value |-> constant])]
         IN IF idx <= 255
            THEN push_bytes2(c1, "LoadConstant", idx)
            ELSE push_byte(push_byte(push_bytes2(c1, "LoadConstantExt",
                                                 (idx \div 65536) % 256),
                                     (idx \div 256) % 256),
                           idx % 256)

\* The index of the jump's operand is left in ret.
push_jump(c, op) ==
    LET c1 == push_byte(push_bytes2(c, op, 255), 255)
    IN IF Halted(c1) THEN c1
       ELSE LET idx == jump_target(chunk(c1)) - 2
            IN [c1 EXCEPT !.function_stack[Cur(c)].jumps = Append(@, idx),
                          !.ret = idx]

\* self.chunk_mut().patch_jump(jump)
patch_jump(c, jump) ==
    IF Halted(c) THEN c
    ELSE [c EXCEPT !.function_stack[Cur(c)].function = Chunk_patch_jump(@, jump),
                   !.function_stack[Cur(c)].patches = Append(@, jump),
                   !.function_stack[Cur(c)].targets = Append(@, jump_target(chunk(c)))]

\* loops is history: where the JumpUp was emitted and the target it was
\* emitted for.
push_loop(c, target) ==
    IF Halted(c) THEN c
    ELSE LET offset == jump_target(chunk(c)) - target + 3
             c1 == IF offset > 65535 THEN Parser_error(c, "loop too long") ELSE c
             c2 == push_byte(push_bytes2(c1, "JumpUp", (offset \div 256) % 256),
                             offset % 256)
         IN IF Halted(c2) THEN c2
            ELSE [c2 EXCEPT !.function_stack[Cur(c)].loops =
                               Append(@, [at |-> jump_target(chunk(c)),
                                          target |-> target])]

push_fn(c) ==
    IF Halted(c) THEN c
    ELSE [c EXCEPT !.function_stack = Append(@, CompilingFunction_new(TRUE))]

add_stack_effect(c, effect) ==
    IF Halted(c) THEN c
    ELSE LET cur == CurFn(c).current_stack_effect + effect
             peak == CurFn(c).peak_stack_effect
         IN [c EXCEPT !.function_stack[Cur(c)].current_stack_effect = cur,
                      !.function_stack[Cur(c)].peak_stack_effect =
                          IF cur > peak THEN cur ELSE peak]

remove_stack_effect(c, effect) ==
    IF Halted(c) THEN c
    ELSE [c EXCEPT !.function_stack[Cur(c)].current_stack_effect = @ - effect]

\* The chunk of the innermost function is finished and func is the function
\* object made of it: remember them.
Finish(c, func) ==
    [c EXCEPT !.finished = Append(@, [code |-> chunk(c).code,
                                      lines |-> chunk(c).lines,
                                      is_function |-> CurFn(c).is_function,
                                      stack_effect |-> func.stack_effect,
                                      peak_stack_effect |-> CurFn(c).peak_stack_effect,
                                      most_locals |-> CurFn(c).most_locals,
                                      stmts |-> CurFn(c).stmts,
                                      jumps |-> CurFn(c).jumps,
                                      patches |-> CurFn(c).patches,
                                      targets |-> CurFn(c).targets,
                                      loops |-> CurFn(c).loops,
                                      consts |-> CurFn(c).consts,
                                      constants |-> chunk(c).constants])]

\* The compiler after a call on self.vm that left the VM r: what the call
\* returned is left in ret.
with_vm(c, r) == [c EXCEPT !.vm = r, !.ret = r.ret]

\* Compiler::alloc through self.vm.alloc; the address is left in ret.
Compiler_alloc(c, obj) ==
    IF Halted(c) THEN c ELSE with_vm(c, VM_alloc(c.vm, obj))

\* The object an allocation left in ret becomes a constant.
push_obj_constant(c) == push_constant(c, Value_obj(c.ret))

pop_fn(c) ==
    LET c1 == push_opcode(push_opcode(c, "Null"), "Return")
    IN IF Halted(c1) THEN c1
       ELSE LET func == [chunk(c1) EXCEPT
                           !.stack_effect = CurFn(c1).peak_stack_effect]
                c2 == Finish(c1, func)
                c3 == [c2 EXCEPT !.function_stack = SubSeq(@, 1, Len(@) - 1)]
            IN push_obj_constant(Compiler_alloc(c3, func))

(***************************************************************************)
(* Compiler: literals, names, expressions.                                 *)
(***************************************************************************)
DigitValue(ch) ==
    CASE ch = "0" -> 0 [] ch = "1" -> 1 [] ch = "2" -> 2 [] ch = "3" -> 3
      [] ch = "4" -> 4 [] ch = "5" -> 5 [] ch = "6" -> 6 [] ch = "7" -> 7
      [] ch = "8" -> 8 [] ch = "9" -> 9

\* str::parse::<f64> on a lexeme of Lexer_number: digits, then optionally a
\* '.' and digits.  acc / scale is the number read so far.
RECURSIVE parse_f64(_, _, _, _)
parse_f64(str, acc, scale, frac) ==
    IF str = "" THEN Value_float(acc, scale)
    ELSE LET ch == SubSeq(str, 1, 1)
             rest == SubSeq(str, 2, Len(str))
         IN IF ch = "." THEN parse_f64(rest, acc, scale, TRUE)
            ELSE parse_f64(rest, acc * 10 + DigitValue(ch),
                           IF frac THEN scale * 10 ELSE scale, frac)

previous_lexeme(c) ==
    get_token_string(c.parser.lexer, c.parser.previous)

\* A slice of the program by the previous token panics when the token is
\* absent or reaches beyond the text (the Eof token does).
lexeme_panics(c) ==
    ~c.parser.previous.ok \/ c.parser.previous.end > Len(c.parser.lexer.program)

integer(c) ==
    IF Halted(c) THEN c
    ELSE IF lexeme_panics(c) THEN Panic(c)
    ELSE LET value == parse_f64(previous_lexeme(c), 0, 1, FALSE)
             c1 == IF value.d # 1
                   THEN Parser_error(c, "number must be an integer") ELSE c
         IN push_constant(c1, value)

number(c) ==
    IF Halted(c) THEN c
    ELSE IF lexeme_panics(c) THEN Panic(c)
    ELSE push_constant(c, parse_f64(previous_lexeme(c), 0, 1, FALSE))

\* escape_bytes::unescape, for the escapes \n \t \r \\ \" ; ret is <<ok, text>>.
\* The chars before the first backslash are copied as they are.
RECURSIVE unescape(_)
unescape(str) ==
    LET escapes == {i \in 1 .. Len(str) : SubSeq(str, i, i) = "\\"}
    IN IF escapes = {} THEN <<TRUE, str>>
       ELSE LET k == CHOOSE i \in escapes : \A j \in escapes : i <= j
                plain == SubSeq(str, 1, k - 1)
                e == SubSeq(str, k + 1, k + 1)
                rest == unescape(SubSeq(str, k + 2, Len(str)))
            IN CASE e = "n" -> <<rest[1], plain \o "\n" \o rest[2]>>
                 [] e = "t" -> <<rest[1], plain \o "\t" \o rest[2]>>
                 [] e = "r" -> <<rest[1], plain \o "\r" \o rest[2]>>
                 [] e = "\\" -> <<rest[1], plain \o "\\" \o rest[2]>>
                 [] e = "\"" -> <<rest[1], plain \o "\"" \o rest[2]>>
                 [] OTHER -> <<FALSE, "">>

string(c) ==
    IF Halted(c) THEN c
    ELSE IF lexeme_panics(c) THEN Panic(c)
    ELSE LET u == unescape(previous_lexeme(c))
         IN IF ~u[1] THEN Parser_error(c, "invalid escape in string")
            ELSE IF Len(u[2]) < 2 THEN Panic(c)
            ELSE push_obj_constant(
                   Compiler_alloc(c, ObjString_new(SubSeq(u[2], 2, Len(u[2]) - 1))))

\* The index of the innermost local of that name, or -1 for None, is left in
\* ret.
\* resolve_local searching from the first local: the outermost one wins.
resolve_outermost(c, name) ==
    IF Halted(c) THEN c
    ELSE LET hits == {i \in DOMAIN locals(c) : locals(c)[i].name = name}
         IN IF hits = {} THEN [c EXCEPT !.ret = -1]
            ELSE LET i == CHOOSE j \in hits : \A k \in hits : j <= k
                     c1 == IF locals(c)[i].depth < 0
                           THEN Parser_error(
                                  c, "can't reference local in its own initialiser")
                           ELSE c
                 IN IF Halted(c1) THEN c1 ELSE [c1 EXCEPT !.ret = (i - 1) % 256]

resolve_local(c, name) ==
    IF Halted(c) THEN c
    ELSE LET hits == {i \in DOMAIN locals(c) : locals(c)[i].name = name}
         IN IF hits = {} THEN [c EXCEPT !.ret = -1]
            ELSE LET i == CHOOSE j \in hits : \A k \in hits : k <= j
                     c1 == IF locals(c)[i].depth < 0
                           THEN Parser_error(
                                  c, "can't reference local in its own initialiser")
                           ELSE c
                 IN IF Halted(c1) THEN c1 ELSE [c1 EXCEPT !.ret = (i - 1) % 256]

Compiler_get_global_idx(c, name) ==
    IF Halted(c) THEN c ELSE with_vm(c, get_global_idx(c.vm, name))

\* What a begin_scope found: the scope it opens is the innermost open one.
ScopeBegun(c) ==
    [locals |-> Len(locals(c)), scope_depth |-> scope_depth(c),
     current_stack_effect |-> CurFn(c).current_stack_effect, declared |-> 0]

begin_scope(c) ==
    IF Halted(c) THEN c
    ELSE [c EXCEPT !.function_stack[Cur(c)].scope_depth = @ + 1,
                   !.function_stack[Cur(c)].open = Append(@, ScopeBegun(c))]

\* What an end_scope did, c being the compiler it found and c1 the one it
\* left: the innermost open scope is closed.
ScopeEnded(c, c1) ==
    [begun |-> CurFn(c).open[Len(CurFn(c).open)],
     emitted |-> SubSeq(chunk(c1).code, Len(chunk(c).code) + 1, Len(chunk(c1).code)),
     removed |-> Len(locals(c)) - Len(locals(c1)),
     kept |-> SubSeq(locals(c), 1, Len(locals(c1))) = locals(c1),
     effect |-> CurFn(c).current_stack_effect - CurFn(c1).current_stack_effect,
     locals |-> Len(locals(c1)), scope_depth |-> scope_depth(c1),
     current_stack_effect |-> CurFn(c1).current_stack_effect,
     had_error |-> c1.parser.had_error]

scope_ended(c, c1) ==
    IF Halted(c1) \/ CurFn(c).open = <<>> THEN c1
    ELSE [c1 EXCEPT !.scopes = Append(@, ScopeEnded(c, c1)),
                    !.function_stack[Cur(c)].open = SubSeq(@, 1, Len(@) - 1)]

\* end_scope's loop when it stops after the first local it pops.
end_scope_once(c) ==
    IF Halted(c) \/ locals(c) = <<>> THEN c
    ELSE LET local == locals(c)[Len(locals(c))]
         IN IF local.depth < 0 THEN Panic(c)
            ELSE IF local.depth <= scope_depth(c) THEN c
            ELSE LET c1 == push_opcode(c, "Pop")
                 IN IF Halted(c1) THEN c1
                    ELSE remove_stack_effect(
                           [c1 EXCEPT !.function_stack[Cur(c)].locals =
                                         SubSeq(@, 1, Len(@) - 1)], 1)

RECURSIVE end_scope_loop(_)
end_scope_loop(c) ==
    IF Halted(c) \/ locals(c) = <<>> THEN c
    ELSE LET local == locals(c)[Len(locals(c))]
         IN IF local.depth < 0 THEN Panic(c)
            ELSE IF local.depth <= scope_depth(c) THEN c
            ELSE LET c1 == push_opcode(c, "Pop")
                 IN IF Halted(c1) THEN c1
                    ELSE end_scope_loop(remove_stack_effect(
                           [c1 EXCEPT !.function_stack[Cur(c)].locals =
                                         SubSeq(@, 1, Len(@) - 1)], 1))

end_scope(c) ==
    IF Halted(c) THEN c
    ELSE scope_ended(c, end_scope_loop(
                          [c EXCEPT !.function_stack[Cur(c)].scope_depth = @ - 1]))

add_local(c, name) ==
    IF Halted(c) THEN c
    ELSE LET c1 == IF Len(locals(c)) = 256
                   THEN Parser_error(
                          c, "can't have more than 256 local variables per function")
                   ELSE c
         IN IF Halted(c1) THEN c1
            ELSE [c1 EXCEPT !.function_stack[Cur(c)].locals =
                               Append(@, [name |-> name, depth |-> -1]),
                            !.function_stack[Cur(c)].open =
                               IF @ = <<>> THEN @
                               ELSE [@ EXCEPT ![Len(@)].declared = @ + 1]]

\* for local in locals.iter().rev(): whether a local of the current depth has
\* the name; a local whose depth is still absent panics (unwrap).  ret of the
\* loop: "dup", "none" or "panic".
RECURSIVE declared_here(_, _, _, _)
declared_here(ls, i, depth, name) ==
    IF i = 0 THEN "none"
    ELSE IF ls[i].depth < 0 THEN "panic"
    ELSE IF ls[i].depth < depth THEN "none"
    ELSE LET rest == declared_here(ls, i - 1, depth, name)
         IN IF rest = "panic" THEN "panic"
            ELSE IF ls[i].name = name THEN "dup" ELSE rest

\* declare_variable without its search for a local of the same name.
declare_unchecked(c) ==
    IF Halted(c) \/ scope_depth(c) = 0 THEN c
    ELSE IF lexeme_panics(c) THEN Panic(c)
    ELSE add_local(c, previous_lexeme(c))

declare_variable(c) ==
    IF Halted(c) \/ scope_depth(c) = 0 THEN c
    ELSE IF lexeme_panics(c) THEN Panic(c)
    ELSE LET name == previous_lexeme(c)
             found == declared_here(locals(c), Len(locals(c)),
                                    scope_depth(c), name)
         IN IF found = "panic" THEN Panic(c)
            ELSE add_local(IF found = "dup"
                           THEN Parser_error(c, "there is already a variable with this name in this scope")
                           ELSE c, name)

\* most_locals is history: the largest number of locals of the function
\* that were initialised at the same time.
most_locals(c) ==
    LET n == Cardinality({i \in DOMAIN locals(c) : locals(c)[i].depth >= 0})
    IN [c EXCEPT !.function_stack[Cur(c)].most_locals = IF n > @ THEN n ELSE @]

mark_initialised(c) ==
    LET c1 == add_stack_effect(c, 1)
    IN IF Halted(c1) THEN c1
       ELSE IF locals(c1) = <<>> THEN Panic(c1)
       ELSE most_locals(
              [c1 EXCEPT !.function_stack[Cur(c)].locals[Len(locals(c1))].depth =
                            scope_depth(c1)])

\* The global index (0 for a local) is left in ret.
variable_idx(c) ==
    IF Halted(c) THEN c
    ELSE IF scope_depth(c) > 0 THEN [c EXCEPT !.ret = 0]
    ELSE IF lexeme_panics(c) THEN Panic(c)
    ELSE Compiler_get_global_idx(c, previous_lexeme(c))

parse_variable(c, error_message) ==
    variable_idx(declare_variable(consume(c, "Ident", error_message)))

define_variable(c, global_idx) ==
    IF Halted(c) THEN c
    ELSE IF scope_depth(c) > 0 THEN mark_initialised(c)
    ELSE push_bytes2(c, "DefineGlobal", global_idx)

prefix_bp(op) == IF op \in {"Bang", "Minus"} THEN 15 ELSE -1

\* infix_bp with the powers of + - and * / exchanged.
infix_bp_swapped(op) ==
    CASE op = "Or" -> <<3, 4>>
      [] op = "And" -> <<5, 6>>
      [] op \in {"DoubleEqual", "BangEqual"} -> <<7, 8>>
      [] op \in {"Greater", "GreaterEqual", "Less", "LessEqual"} -> <<9, 10>>
      [] op \in {"Plus", "Minus"} -> <<13, 14>>
      [] op \in {"Mul", "Div"} -> <<11, 12>>
      [] op \in {"OpenParen", "OpenSquare"} -> <<17, 18>>
      [] OTHER -> <<>>

\* <<l_bp, r_bp>>, or <<>> for None.
infix_bp(op) ==
    CASE op = "Or" -> <<3, 4>>
      [] op = "And" -> <<5, 6>>
      [] op \in {"DoubleEqual", "BangEqual"} -> <<7, 8>>
      [] op \in {"Greater", "GreaterEqual", "Less", "LessEqual"} -> <<9, 10>>
      [] op \in {"Plus", "Minus"} -> <<11, 12>>
      [] op \in {"Mul", "Div"} -> <<13, 14>>
      [] op \in {"OpenParen", "OpenSquare"} -> <<17, 18>>
      [] OTHER -> <<>>

BinaryOpCode(op) ==
    CASE op = "Plus" -> "Add" [] op = "Minus" -> "Sub" [] op = "Mul" -> "Mul"
      [] op = "Div" -> "Div" [] op = "DoubleEqual" -> "Equal"
      [] op = "BangEqual" -> "NotEqual" [] op = "Greater" -> "Greater"
      [] op = "GreaterEqual" -> "GreaterEqual" [] op = "Less" -> "Less"
      [] op = "LessEqual" -> "LessEqual"

(***************************************************************************)
(* Compiler: the rules of the parser.  A rule that calls a rule is cut at  *)
(* its calls: rule(c, pc, a) is the piece of the rule that runs from       *)
(* position pc, with the rule's local variables a, up to its next call of  *)
(* a rule or its return.  rule_stack holds one frame per rule that has     *)
(* not returned, the innermost last: it is the call stack of the compiler. *)
(***************************************************************************)
Frame(rule, pc, a) == [rule |-> rule, pc |-> pc, a |-> a]

Top == rule_stack[Len(rule_stack)]

\* The rule returns.
Leave(c) == [c |-> c, rule_stack |-> SubSeq(rule_stack, 1, Len(rule_stack) - 1)]

\* The rule goes on at pc.
Goto(c, pc, a) ==
    [c |-> c, rule_stack |-> [rule_stack EXCEPT ![Len(rule_stack)] = Frame(Top.rule, pc, a)]]

\* The rule calls `rule` with argument arg, and goes on at pc afterwards.
Invoke(c, pc, a, rule, arg) ==
    [c |-> c,
     rule_stack |-> Append([rule_stack EXCEPT ![Len(rule_stack)] = Frame(Top.rule, pc, a)],
                           Frame(rule, 0, arg))]

\* expression() is expression_bp(0).
expression(c, pc, a) == Invoke(c, pc, a, "expression_bp", <<0>>)

\* a is <<local>> once the name is resolved, its index left in ret, and
\* <<set_op, arg>> while the right side of an assignment is being compiled.
identifier(c, pc, a) ==
    CASE pc = 0 ->
           IF lexeme_panics(c) THEN Leave(Panic(c))
           ELSE LET c1 == resolve_local(c, previous_lexeme(c))
                IN IF Halted(c1) \/ c1.ret >= 0 THEN Goto(c1, 2, <<TRUE>>)
                   ELSE Goto(Compiler_get_global_idx(c1, previous_lexeme(c)), 2,
                             <<FALSE>>)
      [] pc = 2 ->
           IF compare_next(c, "Equal")
           THEN expression(Parser_advance(c), 1,
                           <<IF a[1] THEN "SetLocal" ELSE "SetGlobal", c.ret>>)
           ELSE Leave(push_bytes2(c, IF a[1] THEN "GetLocal" ELSE "GetGlobal", c.ret))
      [] pc = 1 -> Leave(push_bytes2(c, a[1], a[2]))

map_access(c, pc, a) ==
    CASE pc = 0 -> expression(c, 1, a)
      [] pc = 1 -> Goto(consume(c, "CloseSquare", "expected ']' after map access"), 3, a)
      [] pc = 3 -> IF compare_next(c, "Equal") THEN expression(Parser_advance(c), 2, a)
                   ELSE Leave(push_opcode(c, "GetMap"))
      [] pc = 2 -> Leave(push_opcode(c, "SetMap"))

\* Position 4 is the head of the loop over the parameters.
function(c, pc, a) ==
    CASE pc = 0 ->
           Goto(consume(begin_scope(push_fn(c)), "OpenParen",
                        "expected '(' to enclose arguments in function definition"),
                2, a)
      [] pc = 2 -> IF compare_next(c, "CloseParen") THEN Goto(c, 3, a) ELSE Goto(c, 4, a)
      [] pc = 4 ->
           LET arity == chunk(c).arity + 1
               c1 == [c EXCEPT !.function_stack[Cur(c)].function.arity = arity]
           IN Goto(mark_initialised(parse_variable(
                     IF arity > 255
                     THEN Parser_error(c1, "can't have more than 255 parameters")
                     ELSE c1,
                     "expected parameter")),
                   5, a)
      [] pc = 5 -> IF compare_next(c, "Comma") THEN Goto(Parser_advance(c), 4, a)
                   ELSE Goto(c, 3, a)
      [] pc = 3 ->
           Invoke(consume(consume(c, "CloseParen", "expected ')' after function arguments"),
                          "OpenBrace", "expected '{' after arguments"),
                  1, a, "block", <<>>)
      [] pc = 1 -> Leave(pop_fn(c))

\* a is <<arg_count>>.
call(c, pc, a) ==
    CASE pc = 0 -> IF compare_next(c, "CloseParen") THEN Goto(c, 3, <<0>>)
                   ELSE Goto(c, 1, <<0>>)
      [] pc = 1 ->
           expression(IF a[1] = 255
                      THEN Parser_error(c, "can't have more than 255 arguments")
                      ELSE c,
                      2, <<(a[1] + 1) % 256>>)
      [] pc = 2 -> IF compare_next(c, "Comma") THEN Goto(Parser_advance(c), 1, a)
                   ELSE Goto(c, 3, a)
      [] pc = 3 ->
           Leave(push_bytes2(consume(c, "CloseParen",
                                     "expected ')' after arguments to function call"),
                             "Call", a[1]))

\* a is <<min_bp>>, and <<min_bp, op>> or <<min_bp, jump>> while the operand
\* of the operator op, or the right side of a short-circuit operator, is
\* being compiled.  Position 1 is the head of the loop over the infix
\* operators.
expression_bp(c, pc, a) ==
    CASE pc = 0 -> Goto(Parser_advance(c), 6, a)
      [] pc = 6 ->
           (LET kind == c.parser.previous.kind
            IN CASE kind = "Number" -> Goto(number(c), 1, a)
                [] kind = "String" -> Goto(string(c), 1, a)
                [] kind = "Ident" -> Invoke(c, 1, a, "identifier", <<>>)
                [] kind = "True" -> Goto(push_constant(c, Value_TRUE), 1, a)
                [] kind = "False" -> Goto(push_constant(c, Value_FALSE), 1, a)
                [] kind = "Null" -> Goto(push_opcode(c, "Null"), 1, a)
                [] kind = "Fn" -> Invoke(c, 1, a, "function", <<>>)
                [] kind = "OpenParen" -> Invoke(c, 2, a, "expression_bp", <<0>>)
                [] kind \in OpKind \ {"OpenParen"} ->
                     IF prefix_bp(kind) >= 0
                     THEN Invoke(c, 3, <<a[1], kind>>, "expression_bp",
                                 <<prefix_bp(kind)>>)
                     ELSE IF lexeme_panics(c) THEN Leave(Panic(c))
                     ELSE Goto(Parser_error(c, "not a prefix operator"), 1, a)
                [] OTHER ->
                     IF lexeme_panics(c) THEN Leave(Panic(c))
                     ELSE Goto(Parser_error(c, "can't be used in an expression"), 1, a))
      [] pc = 2 -> IF compare_next(c, "CloseParen") THEN Goto(Parser_advance(c), 1, a)
                   ELSE Leave(Panic(c))
      [] pc = 3 -> Goto(push_opcode(c, IF a[2] = "Bang" THEN "Not" ELSE "Negate"),
                        1, <<a[1]>>)
      [] pc = 4 -> Goto(patch_jump(c, a[2]), 1, <<a[1]>>)
      [] pc = 5 -> Goto(push_opcode(c, BinaryOpCode(a[2])), 1, <<a[1]>>)
      [] pc = 1 ->
           LET op == c.parser.current.kind
           IN IF op \notin OpKind THEN Leave(c)
              ELSE IF infix_bp(op) = <<>> THEN Leave(c)
              ELSE IF infix_bp(op)[1] < a[1] THEN Leave(c)
              ELSE Goto(Parser_advance(c), 7, <<a[1], op>>)
      [] pc = 7 ->
           LET op == a[2]
               r_bp == infix_bp(op)[2]
               c1 == push_jump(c, IF op = "And" THEN "JumpIfFalseNoPop"
                                  ELSE "JumpIfTrueNoPop")
           IN CASE op \in {"And", "Or"} ->
                     Invoke(push_opcode(c1, "Pop"), 4, <<a[1], c1.ret>>,
                            "expression_bp", <<r_bp>>)
                [] op = "OpenParen" -> Invoke(c, 1, <<a[1]>>, "call", <<>>)
                [] op = "OpenSquare" -> Invoke(c, 1, <<a[1]>>, "map_access", <<>>)
                [] OTHER -> Invoke(c, 5, a, "expression_bp", <<r_bp>>)

\* expression_statement without the Pop it emits.
expression_statement_kept(c, pc, a) ==
    IF pc = 0 THEN expression(c, 1, a)
    ELSE Leave(consume(c, "SemiColon", "expected ';' after expression"))

expression_statement(c, pc, a) ==
    IF pc = 0 THEN expression(c, 1, a)
    ELSE Leave(push_opcode(consume(c, "SemiColon", "expected ';' after expression"),
                           "Pop"))

return_statement(c, pc, a) ==
    IF pc = 1
    THEN Leave(consume(push_opcode(c, "Return"), "SemiColon",
                       "expected ';' after return statement"))
    ELSE LET c1 == IF ~CurFn(c).is_function
                   THEN Parser_error(c, "can't use return when not in a function")
                   ELSE c
         IN IF ~Halted(c1) /\ compare_next(c1, "SemiColon")
            THEN Goto(push_opcode(c1, "Null"), 1, a)
            ELSE expression(c1, 1, a)

block(c, pc, a) ==
    IF ~compare_next(c, "CloseBrace") /\ ~compare_next(c, "Eof")
    THEN Invoke(c, 0, a, "statement", <<>>)
    ELSE Leave(consume(c, "CloseBrace", "expected '}' after block"))

\* a is <<global_idx>>.
var_decl(c, pc, a) ==
    CASE pc = 0 -> Goto(parse_variable(c, "expected variable name"), 2, a)
      [] pc = 2 -> IF compare_next(c, "Equal")
                   THEN expression(Parser_advance(c), 1, <<c.ret>>)
                   ELSE Goto(push_opcode(c, "Null"), 1, <<c.ret>>)
      [] pc = 1 ->
           Leave(define_variable(consume(c, "SemiColon",
                                         "expected ';' after variable declaration"),
                                 a[1]))

\* a is <<jump>>, then <<else_jump>>.
if_statement(c, pc, a) ==
    CASE pc = 0 -> expression(c, 1, a)
      [] pc = 1 -> Goto(consume(c, "OpenBrace", "expected '{' after condition"), 4, a)
      [] pc = 4 ->
           LET c1 == push_jump(c, "JumpIfFalse")
           IN Invoke(begin_scope(c1), 2, <<c1.ret>>, "block", <<>>)
      [] pc = 2 -> Goto(end_scope(c), 5, a)
      [] pc = 5 -> IF compare_next(c, "Else") THEN Goto(Parser_advance(c), 6, a)
                   ELSE Leave(patch_jump(c, a[1]))
      [] pc = 6 ->
           LET c1 == push_jump(c, "Jump")
           IN Invoke(begin_scope(consume(patch_jump(c1, a[1]), "OpenBrace",
                                         "expected '{' after else")),
                     3, <<c1.ret>>, "block", <<>>)
      [] pc = 3 -> Leave(patch_jump(end_scope(c), a[1]))

\* a is <<start>>, then <<start, jump>>.
while_loop(c, pc, a) ==
    CASE pc = 0 -> expression(c, 1, <<jump_target(chunk(c))>>)
      [] pc = 1 ->
           LET c1 == push_jump(c, "JumpIfFalse")
               c2 == consume(c1, "OpenBrace", "expected '{' after condition")
           IN Invoke(begin_scope(c2), 2, <<a[1], c1.ret>>, "block", <<>>)
      [] pc = 2 -> Leave(patch_jump(push_loop(end_scope(c), a[1]), a[2]))

\* One bound of the range of for_loop; the rule goes on at pc with a.
range_bound(c, pc, a, error_message) ==
    IF compare_next(c, "Number") THEN Goto(integer(Parser_advance(c)), pc, a)
    ELSE IF compare_next(c, "Ident")
    THEN Invoke(Parser_advance(c), pc, a, "identifier", <<>>)
    ELSE Goto(Parser_error(c, error_message), pc, a)

\* a is <<start, var_idx, op>>, then <<start, var_idx, jump>>.
for_loop(c, pc, a) ==
    CASE pc = 0 ->
           Goto(consume(declare_variable(consume(begin_scope(c), "Ident",
                                                 "expected loop variable name")),
                        "In", "expected 'in' after loop variable"),
                4, a)
      [] pc = 4 ->
           range_bound(c, 1, a, "expected either integer or identifer for start of range")
      [] pc = 1 ->
           IF locals(c) = <<>> THEN Leave(Panic(c))
           ELSE LET start == jump_target(chunk(c))
                    var_idx == (Len(locals(c)) - 1) % 256
                    c1 == push_bytes2(c, "GetLocal", var_idx)
                    op == IF compare_next(c, "Greater") THEN "Less" ELSE "LessEqual"
                IN IF ~compare_next(c, "Greater") /\ ~compare_next(c, "GreaterEqual")
                   THEN Leave(Parser_error(
                                c1, "must use either '>' or '>=' in for loop range"))
                   ELSE Goto(Parser_advance(c1), 5, <<start, var_idx, op>>)
      [] pc = 5 ->
           range_bound(c, 2, a, "expected either integer or identifer for end of range")
      [] pc = 2 ->
           LET c1 == push_jump(mark_initialised(push_opcode(c, a[3])), "JumpIfFalse")
           IN Invoke(consume(begin_scope(c1), "OpenBrace", "expected '{' after range"),
                     3, <<a[1], a[2], c1.ret>>, "block", <<>>)
      [] pc = 3 ->
           LET c1 == push_constant(push_bytes2(c, "GetLocal", a[2]), Value_float(1, 1))
               c2 == push_opcode(push_bytes2(push_opcode(c1, "Add"), "SetLocal", a[2]),
                                 "Pop")
           IN Leave(end_scope(patch_jump(push_loop(end_scope(c2), a[1]), a[3])))

\* stmts is history: for each statement of the function its first token,
\* where in the chunk it begins and ends, how many locals the function has
\* there, and the scope depth.  ended is FALSE while it is being compiled.
statement_begun(c) ==
    IF Halted(c) THEN c
    ELSE [c EXCEPT !.function_stack[Cur(c)].stmts =
                      Append(@, [kind |-> c.parser.current.kind,
                                 at |-> jump_target(chunk(c)),
                                 locals |-> Len(locals(c)),
                                 depth |-> scope_depth(c),
                                 ended |-> FALSE, end |-> 0, locals_after |-> 0])]

statement_ended(c, idx) ==
    IF Halted(c) \/ idx \notin DOMAIN CurFn(c).stmts THEN c
    ELSE [c EXCEPT !.function_stack[Cur(c)].stmts[idx] =
                      [@ EXCEPT !.ended = TRUE,
                                !.end = jump_target(chunk(c)),
                                !.locals_after = Len(locals(c))]]

\* a is <<kind, idx>>, the first token of the statement and its place in
\* stmts.  Position 2 is after the block of a block statement, position 1
\* after any statement.
statement(c, pc, a) ==
    CASE pc = 0 ->
           LET c1 == statement_begun(c)
               this == <<c.parser.current.kind, Len(CurFn(c).stmts) + 1>>
           IN IF c.parser.current.kind \in {"While", "For", "If", "Let", "Return",
                                            "OpenBrace"}
              THEN Goto(Parser_advance(c1), 3, this)
              ELSE Invoke(c1, 1, this, "expression_statement", <<>>)
      [] pc = 3 ->
           (CASE a[1] = "While" -> Invoke(c, 1, a, "while_loop", <<>>)
             [] a[1] = "For" -> Invoke(c, 1, a, "for_loop", <<>>)
             [] a[1] = "If" -> Invoke(c, 1, a, "if_statement", <<>>)
             [] a[1] = "Let" -> Invoke(c, 1, a, "var_decl", <<>>)
             [] a[1] = "Return" -> Invoke(c, 1, a, "return_statement", <<>>)
             [] a[1] = "OpenBrace" -> Invoke(begin_scope(c), 2, a, "block", <<>>))
      [] pc = 2 -> Goto(end_scope(c), 1, a)
      [] pc = 1 -> Leave(IF c.parser.handling_error THEN sync(c)
                         ELSE statement_ended(c, a[2]))

(***************************************************************************)
(* Compiler: natives, compile.                                             *)
(***************************************************************************)
\* self.vm.globals.set(idx, Value::obj(native)), idx being left in ret.
set_native(c, native) ==
    IF Halted(c) THEN c
    ELSE [c EXCEPT !.vm.globals = Globals_set(@, c.ret, Value_obj(native))]

\* define_native after the allocation, which left the native in ret.
define_native_at(c, name) == set_native(Compiler_get_global_idx(c, name), c.ret)

define_native(c, name) == define_native_at(Compiler_alloc(c, ObjNative_new(name)), name)

NativeNames == <<"time", "print", "read", "num", "abs", "split", "split_into",
                 "chars", "chars_into", "sort">>

\* a is <<i>>: the natives before the i-th are defined.
define_natives(c, pc, a) ==
    IF a[1] <= Len(NativeNames)
    THEN Goto(define_native(c, NativeNames[a[1]]), 0, <<a[1] + 1>>)
    ELSE Leave(c)

VM_new ==
    [frames |-> <<>>, gc |-> GC_new, stack |-> Stack_new, globals |-> Globals_new,
     ip |-> 0, sp |-> 0, status |-> "start", out |-> <<>>, log |-> <<>>,
     calls |-> <<>>, writes |-> <<>>,
     env |-> [collide |-> FALSE, now |-> 0, files |-> <<>>], ret |-> 0]

Compiler_new(program) ==
    LET p == Parser_new(program)
    IN [vm |-> VM_new, parser |-> p,
        function_stack |-> <<CompilingFunction_new(FALSE)>>,
        status |-> IF p.lexer.hang THEN "hang"
                   ELSE IF ~p.current.ok THEN "panic" ELSE "ok",
        errors |-> <<>>, finished |-> <<>>, scopes |-> <<>>, ret |-> 0]

CallFrame_new(func, arity, stack_top) ==
    [function |-> func, ip |-> 0, fp_offset |-> stack_top - arity]

\* func is the address of a function object.
push_call_frame(r, func) ==
    IF ~Ok(r) THEN r
    ELSE IF ~Allocated(r.gc, func) THEN Undefined(r)
    ELSE LET o == r.gc.objects[func]
             st == allocate_slots(r.stack, o.stack_effect)
         IN [r EXCEPT !.stack = st,
                      !.frames = Append(@, CallFrame_new(func, o.arity, st.top))]

\* self.vm.push_call_frame(function), the function being left in ret.
Compiler_push_call_frame(c) ==
    IF Halted(c) THEN c ELSE [c EXCEPT !.vm = push_call_frame(c.vm, c.ret)]

\* compile after the exit on had_error: the top-level function is
\* allocated, frame 0 pushed.
compile_finish(c) ==
    Compiler_push_call_frame(
        Compiler_alloc([Finish(c, chunk(c)) EXCEPT !.function_stack = SubSeq(@, 1, Len(@) - 1)],
                       chunk(c)))

\* Position 1 is the head of the loop over the statements.
compile(c, pc, a) ==
    IF pc = 0 THEN Invoke(c, 1, a, "define_natives", <<1>>)
    ELSE IF ~compare_next(c, "Eof") THEN Invoke(c, 1, a, "statement", <<>>)
    ELSE LET c1 == push_opcode(push_opcode(c, "Null"), "Return")
         IN Leave(IF Halted(c1) \/ c1.parser.had_error THEN c1
                  ELSE compile_finish(c1))

(***************************************************************************)
(* VM (vm/mod.rs): the macros of run and the helpers of the handlers.      *)
(* r.env holds what the environment decides during a step: now, the clock  *)
(* the time native reads; files, the file system the read native sees; and *)
(* collide, whether a hash-map probe compares the probed key with a key    *)
(* whose object has been freed.                                            *)
(***************************************************************************)
frame(r) == r.frames[Len(r.frames)]

\* let offset = ip.offset_from(chunk.code_ptr()): every caller passes the ip
\* of run, or the ip that Op::Call has just stored in the frame.
error_offset(r) == r.ip

\* chunk.lines[offset as usize], the line runtime_error prints; -1 when the
\* index is outside the line table (a panic).
error_line(r) ==
    LET lines == r.gc.objects[frame(r).function].lines
    IN IF error_offset(r) + 1 \in DOMAIN lines THEN lines[error_offset(r) + 1]
       ELSE -1

\* process::exit(101) after the message.
runtime_error(r, message) ==
    IF ~Ok(r) THEN r ELSE [r EXCEPT !.status = "runtime_error"]

\* The object at address p, which must be allocated.
deref(r, p) == r.gc.objects[p]

\* next_byte!(): the byte is left in ret.  A fetch outside the chunk's code
\* reads memory the chunk does not own.
next_byte(r) ==
    IF ~Ok(r) THEN r
    ELSE IF ~Allocated(r.gc, frame(r).function) THEN Undefined(r)
    ELSE LET code == deref(r, frame(r).function).code
         IN IF r.ip < 0 \/ r.ip >= Len(code) THEN Undefined(r)
            ELSE [r EXCEPT !.ret = code[r.ip + 1], !.ip = @ + 1]

\* next_constant!(): constants[byte] panics when out of bounds.
next_constant(r) ==
    LET r1 == next_byte(r)
    IN IF ~Ok(r1) THEN r1
       ELSE LET constants == deref(r1, frame(r1).function).constants
            IN IF r1.ret >= Len(constants) THEN [r1 EXCEPT !.status = "panic"]
               ELSE [r1 EXCEPT !.ret = constants[r1.ret + 1]]

jump(r, offset) == IF ~Ok(r) THEN r ELSE [r EXCEPT !.ip = @ + offset]

stack_push(r, val) ==
    LET r1 == slot_write(r, r.sp, val)
    IN IF ~Ok(r1) THEN r1 ELSE [r1 EXCEPT !.sp = @ + 1]

\* stack_pop!(): the value is left in ret.
stack_pop(r) ==
    IF ~Ok(r) THEN r ELSE slot_read([r EXCEPT !.sp = @ - 1], r.sp - 1)

stack_peek(r, pos) == slot_read(r, r.sp - (pos + 1))

\* Value::is_string reads the kind through the pointer.
is_string(r, v) ==
    is_obj(v) /\ Allocated(r.gc, as_obj(v)) /\ deref(r, as_obj(v)).kind = "String"

\* Whether evaluating is_string, kind or a field of v reads freed memory.
dangling(r, v) == is_obj(v) /\ ~Allocated(r.gc, as_obj(v))

\* impl PartialEq for Obj
\* Equality of objects by address alone.
Obj_identical(r, p, q) == p = q

Obj_eq(r, p, q) ==
    IF deref(r, p).kind = "String" /\ deref(r, q).kind = "String"
    THEN deref(r, p).value = deref(r, q).value
    ELSE p = q

\* impl PartialEq for Value; the boolean is left in ret.
Value_eq(r, a, b) ==
    IF ~Ok(r) THEN r
    ELSE IF is_float(a) /\ is_float(b) THEN [r EXCEPT !.ret = (a = b)]
    ELSE IF is_obj(a) /\ is_obj(b)
         THEN IF dangling(r, a) \/ dangling(r, b) THEN Undefined(r)
              ELSE [r EXCEPT !.ret = Obj_eq(r, as_obj(a), as_obj(b))]
    ELSE [r EXCEPT !.ret = (a = b)]

\* HashMap::get on a sequence of entries [k, ...]: the index of the entry with
\* key k is left in ret, 0 if there is none.  Hashing k reads its object; an
\* entry whose key object has been freed is compared with k only when their
\* hashes collide.
RECURSIVE map_find_from(_, _, _, _)
map_find_from(r, entries, k, i) ==
    IF ~Ok(r) THEN r
    ELSE IF i > Len(entries) THEN [r EXCEPT !.ret = 0]
    ELSE IF dangling(r, entries[i].k)
         THEN IF r.env.collide THEN Undefined(r)
              ELSE map_find_from(r, entries, k, i + 1)
    ELSE LET r1 == Value_eq(r, entries[i].k, k)
         IN IF ~Ok(r1) THEN r1
            ELSE IF r1.ret THEN [r1 EXCEPT !.ret = i]
            ELSE map_find_from(r1, entries, k, i + 1)

map_find(r, entries, k) ==
    IF ~Ok(r) THEN r
    ELSE IF dangling(r, k) THEN Undefined(r)
    ELSE map_find_from(r, entries, k, 1)

\* global_map.get(&map_key).get(&key); ret is [found, value].
global_map_get(r, map_key, key) ==
    LET gm == r.globals.global_map
        r1 == map_find(r, gm, map_key)
    IN IF ~Ok(r1) THEN r1
       ELSE IF r1.ret = 0 THEN [r1 EXCEPT !.ret = [found |-> FALSE, value |-> NULL]]
       ELSE LET m == gm[r1.ret].m
                r2 == map_find(r1, m, key)
            IN IF ~Ok(r2) THEN r2
               ELSE IF r2.ret = 0
                    THEN [r2 EXCEPT !.ret = [found |-> FALSE, value |-> NULL]]
               ELSE [r2 EXCEPT !.ret = [found |-> TRUE, value |-> m[r2.ret].v]]

\* What a key is compared by: the bytes of a string, the value itself
\* otherwise.
KeyOf(g, v) ==
    IF is_obj(v) /\ Allocated(g, as_obj(v)) /\ g.objects[as_obj(v)].kind = "String"
    THEN [tag |-> "string", bytes |-> g.objects[as_obj(v)].value]
    ELSE v

WriteRecord(r, map_key, key, value) ==
    [outer |-> KeyOf(r.gc, map_key), inner |-> KeyOf(r.gc, key), value |-> value]

\* global_map.entry(map_key).or_default().insert(key, value)
global_map_insert(r, map_key, key, value) ==
    LET gm == r.globals.global_map
        r1 == map_find(r, gm, map_key)
    IN IF ~Ok(r1) THEN r1
       ELSE LET i == IF r1.ret = 0 THEN Len(gm) + 1 ELSE r1.ret
                gm1 == IF r1.ret = 0
                       THEN Append(gm, [k |-> map_key, m |-> <<>>]) ELSE gm
                r2 == map_find(r1, gm1[i].m, key)
                written == Append(r.writes, WriteRecord(r, map_key, key, value))
            IN IF ~Ok(r2) THEN r2
               ELSE IF r2.ret = 0
                    THEN [r2 EXCEPT !.globals.global_map =
                            [gm1 EXCEPT ![i].m = Append(@, [k |-> key, v |-> value])],
                                    !.writes = written]
               ELSE [r2 EXCEPT !.globals.global_map =
                            [gm1 EXCEPT ![i].m[r2.ret].v = value],
                               !.writes = written]

(***************************************************************************)
(* f64 arithmetic on the rationals n/d; d = 0 is +inf (n = 1), -inf        *)
(* (n = -1) or NaN (n = 0).  Negative zero is not told from zero.          *)
(***************************************************************************)
NaN == Value("float", 0, 0)

is_nan(a) == a.d = 0 /\ a.n = 0

is_inf(a) == a.d = 0 /\ a.n # 0

Sign(x) == IF x > 0 THEN 1 ELSE IF x < 0 THEN -1 ELSE 0

Float_neg(a) == Value("float", -a.n, a.d)

Float_add(a, b) ==
    IF is_nan(a) \/ is_nan(b) THEN NaN
    ELSE IF is_inf(a) /\ is_inf(b) THEN (IF a.n = b.n THEN a ELSE NaN)
    ELSE IF is_inf(a) THEN a
    ELSE IF is_inf(b) THEN b
    ELSE Value_float(a.n * b.d + b.n * a.d, a.d * b.d)

Float_sub(a, b) == Float_add(a, Float_neg(b))

Float_mul(a, b) ==
    IF is_nan(a) \/ is_nan(b) THEN NaN
    ELSE IF is_inf(a) \/ is_inf(b)
         THEN Value("float", Sign(a.n) * Sign(b.n), 0)
    ELSE Value_float(a.n * b.n, a.d * b.d)

Float_div(a, b) ==
    IF is_nan(a) \/ is_nan(b) THEN NaN
    ELSE IF is_inf(a) THEN (IF is_inf(b) THEN NaN
                            ELSE Value("float", a.n * (IF b.n < 0 THEN -1 ELSE 1), 0))
    ELSE IF is_inf(b) THEN Value_float(0, 1)
    ELSE IF b.n = 0 THEN Value("float", Sign(a.n), 0)
    ELSE Value_float(a.n * b.d, a.d * b.n)

\* a < b of f64: false when either is NaN.
Float_lt(a, b) ==
    IF is_nan(a) \/ is_nan(b) THEN FALSE
    ELSE IF is_inf(a) THEN a.n < 0 /\ b # a
    ELSE IF is_inf(b) THEN b.n > 0
    ELSE a.n * b.d < b.n * a.d

Float_le(a, b) == ~is_nan(a) /\ ~is_nan(b) /\ (a = b \/ Float_lt(a, b))

\* The order of OrderedFloat: NaN is greater than every number.
Ordered_lt(a, b) ==
    IF is_nan(a) THEN FALSE ELSE IF is_nan(b) THEN TRUE ELSE Float_lt(a, b)

(***************************************************************************)
(* Display of values (value.rs, object.rs) and the str methods the natives *)
(* use.                                                                    *)
(***************************************************************************)
RECURSIVE NatToString(_)
NatToString(n) ==
    IF n < 10 THEN SubSeq("0123456789", n + 1, n + 1)
    ELSE NatToString(n \div 10) \o SubSeq("0123456789", (n % 10) + 1, (n % 10) + 1)

MaxFractionDigits == 17

\* The decimal digits of rem / d, rem < d, without trailing zeros.
RECURSIVE FractionDigits(_, _, _)
FractionDigits(rem, d, k) ==
    IF rem = 0 \/ k = 0 THEN ""
    ELSE NatToString((rem * 10) \div d) \o FractionDigits((rem * 10) % d, d, k - 1)

\* f64::to_string
Float_to_string(a) ==
    IF is_nan(a) THEN "NaN"
    ELSE IF is_inf(a) THEN (IF a.n > 0 THEN "inf" ELSE "-inf")
    ELSE LET m == Abs(a.n)
             whole == NatToString(m \div a.d)
             frac == FractionDigits(m % a.d, a.d, MaxFractionDigits)
         IN (IF a.n < 0 THEN "-" ELSE "") \o whole \o
            (IF frac = "" THEN "" ELSE "." \o frac)

\* impl Display for Value; the text is left in ret.
Value_to_string(r, v) ==
    IF ~Ok(r) THEN r
    ELSE IF is_float(v) THEN [r EXCEPT !.ret = Float_to_string(v)]
    ELSE IF is_bool(v) THEN [r EXCEPT !.ret = IF as_bool(v) THEN "true" ELSE "false"]
    ELSE IF is_null(v) THEN [r EXCEPT !.ret = "null"]
    ELSE IF is_obj(v)
         THEN IF dangling(r, v) THEN Undefined(r)
              ELSE LET o == deref(r, as_obj(v))
                   IN [r EXCEPT !.ret = CASE o.kind = "String" -> o.value
                                          [] o.kind = "Function" -> "<fn>"
                                          [] o.kind = "Native" -> "<native fn>"]
    ELSE [r EXCEPT !.ret = "undefined"]

is_space(ch) == ch \in {" ", "\t", "\n", "\r", "\f"}

RECURSIVE trim_start(_)
trim_start(str) ==
    IF str # "" /\ is_space(SubSeq(str, 1, 1))
    THEN trim_start(SubSeq(str, 2, Len(str))) ELSE str

RECURSIVE trim_end(_)
trim_end(str) ==
    IF str # "" /\ is_space(SubSeq(str, Len(str), Len(str)))
    THEN trim_end(SubSeq(str, 1, Len(str) - 1)) ELSE str

trim(str) == trim_end(trim_start(str))

\* str::chars, collected.
RECURSIVE chars_of(_)
chars_of(str) ==
    IF str = "" THEN <<>>
    ELSE <<SubSeq(str, 1, 1)>> \o chars_of(SubSeq(str, 2, Len(str)))

\* str::split_whitespace, collected; word is the piece being read.
RECURSIVE split_whitespace(_, _)
split_whitespace(str, word) ==
    IF str = "" THEN (IF word = "" THEN <<>> ELSE <<word>>)
    ELSE LET ch == SubSeq(str, 1, 1)
             rest == SubSeq(str, 2, Len(str))
         IN IF is_space(ch)
            THEN (IF word = "" THEN <<>> ELSE <<word>>) \o split_whitespace(rest, "")
            ELSE split_whitespace(rest, word \o ch)

\* str::split(pat), collected, for a pattern that is not empty.
RECURSIVE split_pat(_, _, _)
split_pat(str, pat, piece) ==
    IF Len(str) < Len(pat) THEN <<piece \o str>>
    ELSE IF SubSeq(str, 1, Len(pat)) = pat
         THEN <<piece>> \o split_pat(SubSeq(str, Len(pat) + 1, Len(str)), pat, "")
    ELSE split_pat(SubSeq(str, 2, Len(str)), pat, piece \o SubSeq(str, 1, 1))

\* str::split(pat): the empty pattern matches at every char boundary.
split(str, pat) ==
    IF pat = "" THEN <<"">> \o chars_of(str) \o <<"">>
    ELSE split_pat(str, pat, "")

\* Whether str is digits, optionally followed by '.' and digits (at least
\* one digit in all).
RECURSIVE all_numeric(_)
all_numeric(str) ==
    str = "" \/ (is_numeric(SubSeq(str, 1, 1)) /\ all_numeric(SubSeq(str, 2, Len(str))))

RECURSIVE dots(_)
dots(str) ==
    IF str = "" THEN 0
    ELSE (IF SubSeq(str, 1, 1) = "." THEN 1 ELSE 0) + dots(SubSeq(str, 2, Len(str)))

RECURSIVE without_dots(_)
without_dots(str) ==
    IF str = "" THEN ""
    ELSE (IF SubSeq(str, 1, 1) = "." THEN "" ELSE SubSeq(str, 1, 1))
         \o without_dots(SubSeq(str, 2, Len(str)))

\* str::parse::<f64> for the decimal forms [+-]digits[.digits]; ret is
\* <<ok, value>>.  The exponent forms and the spellings of inf and NaN, which
\* f64 also parses, are outside the texts the model feeds it.
str_parse_f64(str) ==
    LET signed == str # "" /\ SubSeq(str, 1, 1) \in {"+", "-"}
        body == IF signed THEN SubSeq(str, 2, Len(str)) ELSE str
        digits == without_dots(body)
    IN IF dots(body) > 1 \/ digits = "" \/ ~all_numeric(digits)
       THEN <<FALSE, NULL>>
       ELSE LET v == parse_f64(body, 0, 1, FALSE)
            IN <<TRUE, IF signed /\ SubSeq(str, 1, 1) = "-" THEN Float_neg(v) ELSE v>>

(***************************************************************************)
(* Natives (compiler/natives.rs).  args is the offset of the first         *)
(* argument from the stack base; the value returned is left in ret.        *)
(***************************************************************************)
\* The check `!value.is_string()` followed by runtime_error.
expect_string(r, v, message) ==
    IF ~Ok(r) THEN r
    ELSE IF dangling(r, v) THEN Undefined(r)
    ELSE IF ~is_string(r, v) THEN runtime_error(r, message)
    ELSE r

expect_args(r, ok, message) ==
    IF ~Ok(r) THEN r ELSE IF ~ok THEN runtime_error(r, message) ELSE r

Result(r, v) == IF ~Ok(r) THEN r ELSE [r EXCEPT !.ret = v]

\* ObjString::new(text) through (*vm).alloc; ret is the Value of the object.
alloc_string(r, text) ==
    LET r1 == VM_alloc(r, ObjString_new(text))
    IN IF ~Ok(r1) THEN r1 ELSE [r1 EXCEPT !.ret = Value_obj(r1.ret)]

native_time(r, arg_count, args) == Result(r, Value_float(r.env.now, 1))

RECURSIVE print_from(_, _, _, _)
print_from(r, arg_count, args, i) ==
    IF ~Ok(r) \/ i >= arg_count THEN r
    ELSE LET r1 == slot_read(r, args + i)
             r2 == Value_to_string(r1, r1.ret)
         IN IF ~Ok(r2) THEN r2
            ELSE print_from([r2 EXCEPT !.out = Append(@, r2.ret)],
                            arg_count, args, i + 1)

native_print(r, arg_count, args) ==
    IF arg_count = 0 THEN Result([r EXCEPT !.out = Append(@, "")], NULL)
    ELSE Result(print_from(r, arg_count, args, 0), NULL)

native_read(r, arg_count, args) ==
    LET r1 == expect_args(r, arg_count = 1, "expected 1 argument")
        r2 == slot_read(r1, args)
        value == r2.ret
        r3 == expect_string(r2, value, "file path must be a string")
    IN IF ~Ok(r3) THEN r3
       ELSE LET path == deref(r3, as_obj(value)).value
            IN IF path \notin DOMAIN r3.env.files
               THEN runtime_error(r3, "file not found")
               ELSE alloc_string(r3, trim(r3.env.files[path]))

native_num(r, arg_count, args) ==
    LET r1 == expect_args(r, arg_count = 1, "expected 1 argument")
        r2 == slot_read(r1, args)
        value == r2.ret
        r3 == expect_string(r2, value, "can only convert strings to numbers")
    IN IF ~Ok(r3) THEN r3
       ELSE LET num == str_parse_f64(trim(deref(r3, as_obj(value)).value))
            IN IF ~num[1]
               THEN runtime_error(r3, "string must represent a valid number")
               ELSE Result(r3, num[2])

native_abs(r, arg_count, args) ==
    LET r1 == expect_args(r, arg_count = 1, "expected 1 argument")
        r2 == slot_read(r1, args)
        value == r2.ret
    IN IF ~Ok(r2) THEN r2
       ELSE IF ~is_float(value)
            THEN runtime_error(r2, "can only get the absolute value of numbers")
       ELSE Result(r2, Value("float", Abs(value.n), value.d))

\* The loop of split_impl and chars_impl over the pieces: each is allocated,
\* then inserted under key at index i.
RECURSIVE insert_pieces(_, _, _, _)
insert_pieces(r, key, pieces, i) ==
    IF ~Ok(r) THEN r
    ELSE IF i >= Len(pieces) THEN Result(r, Value_float(Len(pieces), 1))
    ELSE LET r1 == alloc_string(r, pieces[i + 1])
             r2 == IF ~Ok(r1) THEN r1
                   ELSE global_map_insert(r1, key, Value_float(i, 1), r1.ret)
         IN insert_pieces(r2, key, pieces, i + 1)

split_impl(r, args, key, whitespace) ==
    LET r1 == slot_read(r, args)
        value == r1.ret
        r2 == expect_string(r1, value, "can only split strings")
    IN IF ~Ok(r2) THEN r2
       ELSE LET str == deref(r2, as_obj(value)).value
            IN IF whitespace
               THEN insert_pieces(r2, key, split_whitespace(str, ""), 0)
               ELSE LET r3 == slot_read(r2, args + 1)
                        pat == r3.ret
                        r4 == expect_string(r3, pat, "split pattern must be a string")
                    IN IF ~Ok(r4) THEN r4
                       ELSE insert_pieces(
                              r4, key, split(str, deref(r4, as_obj(pat)).value), 0)

native_split(r, arg_count, args) ==
    LET r1 == expect_args(r, arg_count \in 1..2, "expected 1 or 2 arguments")
        r2 == IF ~Ok(r1) THEN r1 ELSE alloc_string(r1, "split")
    IN IF ~Ok(r2) THEN r2 ELSE split_impl(r2, args, r2.ret, arg_count = 1)

native_split_into(r, arg_count, args) ==
    LET r1 == expect_args(r, arg_count \in 2..3, "expected 2 or 3 arguments")
        r2 == slot_read(r1, args + arg_count - 1)
    IN IF ~Ok(r2) THEN r2 ELSE split_impl(r2, args, r2.ret, arg_count = 2)

chars_impl(r, args, key) ==
    LET r1 == slot_read(r, args)
        value == r1.ret
        r2 == expect_string(r1, value, "can only get chars of strings")
    IN IF ~Ok(r2) THEN r2
       ELSE insert_pieces(r2, key, chars_of(deref(r2, as_obj(value)).value), 0)

native_chars(r, arg_count, args) ==
    LET r1 == expect_args(r, arg_count = 1, "expected 1 argument")
        r2 == IF ~Ok(r1) THEN r1 ELSE alloc_string(r1, "chars")
    IN IF ~Ok(r2) THEN r2 ELSE chars_impl(r2, args, r2.ret)

native_chars_into(r, arg_count, args) ==
    LET r1 == expect_args(r, arg_count = 2, "expected 2 arguments")
        r2 == slot_read(r1, args + 1)
    IN IF ~Ok(r2) THEN r2 ELSE chars_impl(r2, args, r2.ret)

\* `as usize` of an f64 that is an integer: negative values and NaN give 0.
as_usize(a) == IF a.d = 0 \/ a.n < 0 THEN 0 ELSE a.n \div a.d

\* The first loop of native_sort: the values at start..end, left in ret.
RECURSIVE sort_collect(_, _, _, _, _)
sort_collect(r, m, i, end, buf) ==
    IF ~Ok(r) THEN r
    ELSE IF i >= end THEN Result(r, buf)
    ELSE LET r1 == map_find(r, m, Value_float(i, 1))
         IN IF ~Ok(r1) THEN r1
            ELSE IF r1.ret = 0 THEN runtime_error(r1, "no value at index")
            ELSE IF ~is_float(m[r1.ret].v)
                 THEN runtime_error(r1, "can only sort numbers")
            ELSE sort_collect(r1, m, i + 1, end, Append(buf, m[r1.ret].v))

\* buf.sort_unstable() by the order of OrderedFloat (insertion of x in a
\* sorted sequence; equal elements are indistinguishable).
RECURSIVE sort_insert(_, _)
sort_insert(sorted, x) ==
    IF sorted = <<>> THEN <<x>>
    ELSE IF Ordered_lt(x, Head(sorted)) THEN <<x>> \o sorted
    ELSE <<Head(sorted)>> \o sort_insert(Tail(sorted), x)

RECURSIVE sort_unstable(_)
sort_unstable(buf) ==
    IF buf = <<>> THEN <<>> ELSE sort_insert(sort_unstable(Tail(buf)), Head(buf))

\* The second loop of native_sort: map.insert(i, buf[i - start]).
RECURSIVE sort_store(_, _, _, _, _)
sort_store(r, key, i, start, buf) ==
    IF ~Ok(r) \/ i - start >= Len(buf) THEN r
    ELSE sort_store(global_map_insert(r, key, Value_float(i, 1), buf[i - start + 1]),
                    key, i + 1, start, buf)

native_sort(r, arg_count, args) ==
    LET r1 == expect_args(r, arg_count = 3, "expected 3 arguments")
        r2 == slot_read(r1, args)
        key == r2.ret
        r3 == map_find(r2, r2.globals.global_map, key)
        r4 == expect_args(r3, r3.ret # 0, "has no values associated with it")
        r5 == slot_read(r4, args + 1)
        start == r5.ret
        r6 == slot_read(r5, args + 2)
        end == r6.ret
        r7 == expect_args(r6, is_float(start) /\ is_float(end),
                          "can only sort data indexed by numbers")
        r8 == expect_args(r7, start.d = 1 /\ end.d = 1,
                          "can only sort data indexed by integers")
    IN IF ~Ok(r8) THEN r8
       ELSE IF as_usize(end) < as_usize(start) THEN [r8 EXCEPT !.status = "panic"]
       ELSE LET r9 == sort_collect(r8, r8.globals.global_map[r3.ret].m,
                                   as_usize(start), as_usize(end), <<>>)
            IN IF ~Ok(r9) THEN r9
               ELSE Result(sort_store(r9, key, as_usize(start), as_usize(start),
                                      sort_unstable(r9.ret)), NULL)

\* The call of the function pointer held by a native object.
native(r, name, arg_count, args) ==
    CASE name = "time" -> native_time(r, arg_count, args)
      [] name = "print" -> native_print(r, arg_count, args)
      [] name = "read" -> native_read(r, arg_count, args)
      [] name = "num" -> native_num(r, arg_count, args)
      [] name = "abs" -> native_abs(r, arg_count, args)
      [] name = "split" -> native_split(r, arg_count, args)
      [] name = "split_into" -> native_split_into(r, arg_count, args)
      [] name = "chars" -> native_chars(r, arg_count, args)
      [] name = "chars_into" -> native_chars_into(r, arg_count, args)
      [] name = "sort" -> native_sort(r, arg_count, args)

(***************************************************************************)
(* VM: calls.  r.calls is history: for every frame above frame 0, what the *)
(* Call that pushed it saw (sp and the slots below the callee, the ip of   *)
(* the instruction after the Call).                                        *)
(***************************************************************************)
\* call without its comparison of arg_count with the arity.
call_any_arity(r, func, arg_count) == push_call_frame(r, func)

VM_call(r, func, arg_count) ==
    LET arity == deref(r, func).arity
        r1 == IF arg_count # arity
              THEN runtime_error(r, "expected arity arguments") ELSE r
    IN push_call_frame(r1, func)

call_value(r, func, arg_count) ==
    IF ~Ok(r) THEN r
    ELSE IF ~is_obj(func) THEN runtime_error(r, "can only call functions")
    ELSE IF dangling(r, func) THEN Undefined(r)
    ELSE LET o == deref(r, as_obj(func))
         IN CASE o.kind = "Function" -> VM_call(r, as_obj(func), arg_count)
              [] o.kind = "Native" ->
                   LET r1 == native(r, o.value, arg_count, r.stack.top - arg_count)
                   IN IF ~Ok(r1) THEN r1
                      ELSE Stack_push([r1 EXCEPT !.stack.top = @ - (arg_count + 1)],
                                      r1.ret)
              [] OTHER -> runtime_error(r, "can only call functions")

\* The popped frame is left in ret.
pop_call_frame(r) ==
    IF ~Ok(r) THEN r
    ELSE LET old == frame(r)
         IN IF ~Allocated(r.gc, old.function) THEN Undefined(r)
            ELSE [r EXCEPT !.frames = SubSeq(@, 1, Len(@) - 1),
                           !.stack = free_slots(@, deref(r, old.function).stack_effect),
                           !.ret = old]

(***************************************************************************)
(* VM: the arms of the match in run.  Each takes the machine after the     *)
(* opcode byte has been fetched.                                           *)
(***************************************************************************)
Op_LoadConstant(r) ==
    LET r1 == next_constant(r) IN stack_push(r1, r1.ret)

Op_LoadConstantExt(r) ==
    LET r1 == next_byte(r)
        r2 == next_byte(r1)
        r3 == next_byte(r2)
    IN IF ~Ok(r3) THEN r3
       ELSE LET idx == r1.ret * 65536 + r2.ret * 256 + r3.ret
                constants == deref(r3, frame(r3).function).constants
            IN IF idx >= Len(constants) THEN [r3 EXCEPT !.status = "panic"]
               ELSE stack_push(r3, constants[idx + 1])

Op_Null(r) == stack_push(r, NULL)

Op_Pop(r) == stack_pop(r)

Op_Add(r) ==
    LET r1 == stack_pop(r)
        b == r1.ret
        r2 == stack_pop(r1)
        a == r2.ret
    IN IF ~Ok(r2) THEN r2
       ELSE IF is_float(a) /\ is_float(b) THEN stack_push(r2, Float_add(a, b))
       ELSE IF dangling(r2, a) \/ (is_string(r2, a) /\ dangling(r2, b))
            THEN Undefined(r2)
       ELSE IF is_string(r2, a) /\ is_string(r2, b)
            THEN LET new_str == deref(r2, as_obj(a)).value \o
                                deref(r2, as_obj(b)).value
                     r3 == alloc_string([r2 EXCEPT !.stack.top = r2.sp], new_str)
                 IN stack_push(r3, r3.ret)
       ELSE runtime_error(r2, "can only add strings and floats")

\* binary_op!: op is "-", "*" or "/".
binary_op(r, op) ==
    LET r1 == stack_pop(r)
        b == r1.ret
        r2 == stack_pop(r1)
        a == r2.ret
    IN IF ~Ok(r2) THEN r2
       ELSE IF ~is_float(a) \/ ~is_float(b)
            THEN runtime_error(r2, "can only do arithmetic operations on floats")
       ELSE stack_push(r2, CASE op = "-" -> Float_sub(a, b)
                             [] op = "*" -> Float_mul(a, b)
                             [] op = "/" -> Float_div(a, b))

\* equality_op!: op is "==" or "!=".
equality_op(r, op) ==
    LET r1 == stack_pop(r)
        b == r1.ret
        r2 == stack_pop(r1)
        a == r2.ret
        r3 == Value_eq(r2, a, b)
    IN IF ~Ok(r3) THEN r3
       ELSE stack_push(r3, Value_bool(IF op = "==" THEN r3.ret ELSE ~r3.ret))

\* comparison_op!: op is ">", ">=", "<" or "<=".
comparison_op(r, op) ==
    LET r1 == stack_pop(r)
        b == r1.ret
        r2 == stack_pop(r1)
        a == r2.ret
    IN IF ~Ok(r2) THEN r2
       ELSE IF ~is_float(a) \/ ~is_float(b)
            THEN runtime_error(r2, "can only compare floats")
       ELSE stack_push(r2, Value_bool(CASE op = ">" -> Float_lt(b, a)
                                        [] op = ">=" -> Float_le(b, a)
                                        [] op = "<" -> Float_lt(a, b)
                                        [] op = "<=" -> Float_le(a, b)))

Op_Negate(r) ==
    LET r1 == stack_peek(r, 0)
    IN IF ~Ok(r1) THEN r1
       ELSE IF ~is_float(r1.ret) THEN runtime_error(r1, "can only negate numbers")
       ELSE slot_write(r1, r1.sp - 1, Float_neg(r1.ret))

Op_Not(r) ==
    LET r1 == stack_peek(r, 0)
    IN IF ~Ok(r1) THEN r1
       ELSE IF ~is_bool(r1.ret) THEN runtime_error(r1, "can only not boolean values")
       ELSE slot_write(r1, r1.sp - 1, Value_bool(~as_bool(r1.ret)))

\* globals[idx] panics when idx is not an index of the vector.
global_slot(r, idx) ==
    IF ~Ok(r) THEN r
    ELSE IF idx >= Len(r.globals.globals) THEN [r EXCEPT !.status = "panic"]
    ELSE r

Op_DefineGlobal(r) ==
    LET r1 == next_byte(r)
        idx == r1.ret
        r2 == stack_pop(r1)
        r3 == global_slot(r2, idx)
    IN IF ~Ok(r3) THEN r3
       ELSE [r3 EXCEPT !.globals = Globals_set(@, idx, r2.ret)]

\* GetGlobal without its test for undef.
GetGlobal_unchecked(r) ==
    LET r1 == next_byte(r)
        r2 == global_slot(r1, r1.ret)
    IN IF ~Ok(r2) THEN r2
       ELSE stack_push(r2, Globals_get(r2.globals, r1.ret))

Op_GetGlobal(r) ==
    LET r1 == next_byte(r)
        r2 == global_slot(r1, r1.ret)
    IN IF ~Ok(r2) THEN r2
       ELSE LET value == Globals_get(r2.globals, r1.ret)
            IN IF is_undef(value)
               THEN runtime_error(r2, "attempted to get value of undefined variable")
               ELSE stack_push(r2, value)

Op_SetGlobal(r) ==
    LET r1 == next_byte(r)
        idx == r1.ret
        r2 == global_slot(r1, idx)
    IN IF ~Ok(r2) THEN r2
       ELSE IF is_undef(Globals_get(r2.globals, idx))
            THEN runtime_error(r2, "attemped to set value of undefined variable")
       ELSE LET r3 == stack_peek(r2, 0)
            IN IF ~Ok(r3) THEN r3
               ELSE [r3 EXCEPT !.globals = Globals_set(@, idx, r3.ret)]

Op_GetLocal(r) ==
    LET r1 == next_byte(r)
        offset == r1.ret
        r2 == IF ~Ok(r1) THEN r1 ELSE slot_read(r1, offset + frame(r1).fp_offset)
    IN stack_push(r2, r2.ret)

\* self.stack.base_mut().add(next_byte!() as usize).write(stack_peek!(0))
Op_SetLocal(r) ==
    LET r1 == next_byte(r)
        offset == r1.ret
        r2 == stack_peek(r1, 0)
    IN slot_write(r2, offset, r2.ret)

Op_GetMap(r) ==
    LET r1 == stack_pop(r)
        key == r1.ret
        r2 == stack_pop(r1)
        map_key == r2.ret
        r3 == IF ~Ok(r2) THEN r2 ELSE global_map_get(r2, map_key, key)
    IN IF ~Ok(r3) THEN r3
       ELSE IF r3.ret.found THEN stack_push(r3, r3.ret.value)
       ELSE runtime_error(r3, "key not found")

Op_SetMap(r) ==
    LET r1 == stack_pop(r)
        value == r1.ret
        r2 == stack_pop(r1)
        key == r2.ret
        r3 == stack_pop(r2)
        map_key == r3.ret
        r4 == IF ~Ok(r3) THEN r3 ELSE global_map_insert(r3, map_key, key, value)
    IN stack_push(r4, value)

\* (next_byte!() as usize) << 8 | next_byte!() as usize, left in ret.
next_offset(r) ==
    LET r1 == next_byte(r)
        r2 == next_byte(r1)
    IN IF ~Ok(r2) THEN r2 ELSE [r2 EXCEPT !.ret = r1.ret * 256 + r2.ret]

Op_Jump(r) == LET r1 == next_offset(r) IN jump(r1, r1.ret)

\* JumpUp that reads the low byte of its operand only.
JumpUp_low_byte(r) == LET r1 == next_offset(r) IN jump(r1, -(r1.ret % 256))

Op_JumpUp(r) == LET r1 == next_offset(r) IN jump(r1, -r1.ret)

Op_JumpIfFalse(r) ==
    LET r1 == next_offset(r)
        r2 == stack_pop(r1)
    IN IF ~Ok(r2) THEN r2
       ELSE IF ~as_bool(r2.ret) THEN jump(r2, r1.ret) ELSE r2

Op_JumpIfFalseNoPop(r) ==
    LET r1 == next_offset(r)
        r2 == stack_peek(r1, 0)
    IN IF ~Ok(r2) THEN r2
       ELSE IF ~as_bool(r2.ret) THEN jump(r2, r1.ret) ELSE r2

Op_JumpIfTrueNoPop(r) ==
    LET r1 == next_offset(r)
        r2 == stack_peek(r1, 0)
    IN IF ~Ok(r2) THEN r2
       ELSE IF as_bool(r2.ret) THEN jump(r2, r1.ret) ELSE r2

\* What a Call that pushes a frame saw.
CallRecord(r, arg_count) ==
    [sp |-> r.sp, ip |-> r.ip, arg_count |-> arg_count,
     below |-> StackSlots(r.stack, r.sp - (arg_count + 1)),
     depth |-> Len(r.frames)]

Op_Call(r) ==
    LET r1 == next_byte(r)
        arg_count == r1.ret
        r2 == stack_peek(r1, arg_count)
        func == r2.ret
    IN IF ~Ok(r2) THEN r2
       ELSE LET r3 == [r2 EXCEPT !.frames[Len(r2.frames)].ip = r2.ip,
                                 !.stack.top = r2.sp]
                r4 == call_value(r3, func, arg_count)
            IN IF ~Ok(r4) THEN r4
               ELSE [r4 EXCEPT !.ip = frame(r4).ip,
                               !.sp = r4.stack.top,
                               !.calls = IF Len(r4.frames) > Len(r3.frames)
                                         THEN Append(@, CallRecord(r2, arg_count))
                                         ELSE @]

Op_Return(r) ==
    IF ~Ok(r) THEN r
    ELSE IF Len(r.frames) = 1
         THEN [r EXCEPT !.gc = free_everything(@), !.status = "done"]
    ELSE LET r1 == stack_pop(r)
             result == r1.ret
             r2 == pop_call_frame(r1)
             old_frame == r2.ret
         IN IF ~Ok(r2) THEN r2
            ELSE stack_push([r2 EXCEPT !.ip = frame(r2).ip,
                                       !.sp = old_frame.fp_offset - 1,
                                       !.calls = SubSeq(@, 1, Len(@) - 1)],
                            result)

(***************************************************************************)
(* The state machine.  main compiles the program and runs it: Main is      *)
(* Compiler::new and the call of compile, a rule action is the next piece  *)
(* of the parser rule it is named after, every other action is one turn of *)
(* the loop of run, named by the arm of the match it takes.                *)
(***************************************************************************)
MaxClock == 1

Envs == [collide : BOOLEAN, now : 0..MaxClock, files : {files}]

Machine(env) ==
    [frames |-> frames, gc |-> gc, stack |-> stack, globals |-> globals,
     ip |-> ip, sp |-> sp, status |-> status, out |-> out, log |-> log,
     calls |-> calls, writes |-> writes, env |-> env, ret |-> 0]

\* The machine r becomes the state.  Once the behaviour is undefined only
\* the status says so: nothing else of r means anything.
Commit(r) ==
    /\ status' = r.status
    /\ IF r.status = "undefined"
       THEN UNCHANGED <<frames, gc, stack, globals, ip, sp, out, log, calls, writes>>
       ELSE /\ frames' = r.frames
            /\ gc' = r.gc
            /\ stack' = r.stack
            /\ globals' = r.globals
            /\ ip' = r.ip
            /\ sp' = r.sp
            /\ out' = r.out
            /\ log' = r.log
            /\ calls' = r.calls
            /\ writes' = r.writes
    /\ UNCHANGED <<source, files, chunks, errors, compiler, rule_stack, built, lexed>>

\* What compile leaves behind becomes the state: the VM it returns, or the
\* VM as it was when the process ended.
Finished(c) ==
    LET r == IF c.status # "ok" THEN [c.vm EXCEPT !.status = c.status]
             ELSE IF ~Ok(c.vm) THEN c.vm
             ELSE IF c.parser.had_error
                  THEN [c.vm EXCEPT !.status = "compile_error"]
             ELSE [c.vm EXCEPT !.status = "running",
                               !.ip = frame(c.vm).ip,
                               !.sp = c.vm.stack.top]
    IN /\ status' = r.status
       /\ frames' = r.frames
       /\ gc' = r.gc
       /\ stack' = r.stack
       /\ globals' = r.globals
       /\ ip' = r.ip
       /\ sp' = r.sp
       /\ out' = r.out
       /\ log' = r.log
       /\ calls' = r.calls
       /\ writes' = r.writes

\* res is what a piece of a rule came to: the compiler and the rule stack.
\* The compiler goes on unless the process ended or compile returned.
Continue(res) ==
    /\ compiler' = res.c
    /\ chunks' = res.c.finished
    /\ errors' = res.c.errors
    /\ IF Halted(res.c) \/ res.rule_stack = <<>>
       THEN /\ rule_stack' = <<>>
            /\ Finished(res.c)
       ELSE /\ rule_stack' = res.rule_stack
            /\ status' = "compiling"
            /\ UNCHANGED <<frames, gc, stack, globals, ip, sp, out, log, calls, writes>>
    /\ UNCHANGED <<source, files, built, lexed>>

\* main: Compiler::new(&program), and compile is called.
Main ==
    /\ status = "start"
    /\ Continue([c |-> Compiler_new(source),
                 rule_stack |-> <<Frame("compile", 0, <<>>)>>])

\* The compiler runs the next piece of the innermost rule, `name`.
Rule(name, Piece(_, _, _)) ==
    /\ status = "compiling"
    /\ rule_stack # <<>>
    /\ Top.rule = name
    /\ Continue(Piece(compiler, Top.pc, Top.a))

Compile == Rule("compile", compile)

DefineNatives == Rule("define_natives", define_natives)

Statement == Rule("statement", statement)

Block == Rule("block", block)

VarDecl == Rule("var_decl", var_decl)

IfStatement == Rule("if_statement", if_statement)

WhileLoop == Rule("while_loop", while_loop)

ForLoop == Rule("for_loop", for_loop)

ReturnStatement == Rule("return_statement", return_statement)

ExpressionStatement == Rule("expression_statement", expression_statement)

ExpressionBp == Rule("expression_bp", expression_bp)

Identifier == Rule("identifier", identifier)

MapAccess == Rule("map_access", map_access)

Function == Rule("function", function)

CallArgs == Rule("call", call)

\* The opcode the next turn of the loop fetches, -1 when the fetch itself is
\* undefined behaviour.
Fetch ==
    LET r == next_byte(Machine([collide |-> FALSE, now |-> 0, files |-> files]))
    IN IF Ok(r) THEN r.ret ELSE -1

\* A run is followed until it has printed MaxOutput values.
MaxOutput == 12

\* The loop of run is taking turns.
Running == status = "running" /\ Len(out) < MaxOutput

\* One turn of the loop that takes the arm `name`, whose body is Handler.
Dispatch(name, Handler(_)) ==
    /\ Running
    /\ Fetch = OpCode(name)
    /\ \E env \in Envs : Commit(Handler(next_byte(Machine(env))))

\* The compiler emits LoadConstantExt only for a constant index above 255,
\* which add_constant never returns; the arm is part of the same action.
LoadConstant ==
    /\ Running
    /\ Fetch \in {OpCode("LoadConstant"), OpCode("LoadConstantExt")}
    /\ \E env \in Envs :
         Commit(IF Fetch = OpCode("LoadConstant")
                THEN Op_LoadConstant(next_byte(Machine(env)))
                ELSE Op_LoadConstantExt(next_byte(Machine(env))))

Null_ == Dispatch("Null", Op_Null)

Pop == Dispatch("Pop", Op_Pop)

Add == Dispatch("Add", Op_Add)

Sub == Dispatch("Sub", LAMBDA r : binary_op(r, "-"))

Mul == Dispatch("Mul", LAMBDA r : binary_op(r, "*"))

Div == Dispatch("Div", LAMBDA r : binary_op(r, "/"))

Equal == Dispatch("Equal", LAMBDA r : equality_op(r, "=="))

NotEqual == Dispatch("NotEqual", LAMBDA r : equality_op(r, "!="))

Greater == Dispatch("Greater", LAMBDA r : comparison_op(r, ">"))

GreaterEqual == Dispatch("GreaterEqual", LAMBDA r : comparison_op(r, ">="))

Less == Dispatch("Less", LAMBDA r : comparison_op(r, "<"))

LessEqual == Dispatch("LessEqual", LAMBDA r : comparison_op(r, "<="))

Negate == Dispatch("Negate", Op_Negate)

Not == Dispatch("Not", Op_Not)

DefineGlobal == Dispatch("DefineGlobal", Op_DefineGlobal)

GetGlobal == Dispatch("GetGlobal", Op_GetGlobal)

SetGlobal == Dispatch("SetGlobal", Op_SetGlobal)

GetLocal == Dispatch("GetLocal", Op_GetLocal)

SetLocal == Dispatch("SetLocal", Op_SetLocal)

GetMap == Dispatch("GetMap", Op_GetMap)

SetMap == Dispatch("SetMap", Op_SetMap)

Jump == Dispatch("Jump", Op_Jump)

JumpUp == Dispatch("JumpUp", Op_JumpUp)

JumpIfFalse == Dispatch("JumpIfFalse", Op_JumpIfFalse)

JumpIfFalseNoPop == Dispatch("JumpIfFalseNoPop", Op_JumpIfFalseNoPop)

JumpIfTrueNoPop == Dispatch("JumpIfTrueNoPop", Op_JumpIfTrueNoPop)

Call == Dispatch("Call", Op_Call)

Return == Dispatch("Return", Op_Return)

\* The arms run has in the default build.
Arms == {OpCode(name) : name \in {OpNames[i] : i \in DOMAIN OpNames} \
                                   {"PushMap", "PopMap"}}

\* The fetch reads outside the chunk, or transmutes a byte that is no
\* opcode of the build.
WildFetch ==
    /\ Running
    /\ Fetch \notin Arms
    /\ status' = "undefined"
    /\ UNCHANGED <<source, files, frames, gc, stack, globals, ip, sp, out, log,
                   calls, writes, chunks, errors, compiler, rule_stack, built, lexed>>

(***************************************************************************)
(* The programs run, each with the files the read native finds.            *)
(***************************************************************************)
RECURSIVE Doubled(_, _)
Doubled(str, times) == IF times = 0 THEN str ELSE Doubled(str \o str, times - 1)

\* A text of 2^20 chars: one string object of it exceeds the first
\* collection threshold, next_gc = 1024 * 1024.
BigText == Doubled("x", 20)

RECURSIVE Repeated(_, _)
Repeated(str, times) == IF times = 0 THEN "" ELSE str \o Repeated(str, times - 1)

NoFiles == <<>>

\* The right operand print(1) prints when it is evaluated.
AndProgram == "print(true && false); print(false && true); print(false && print(1)); print(true && true);"

\* The local k declared after the loops takes the slot the loop variables
\* had: print(k) prints 7 only if the loops left the stack as they found it.
ForProgram == "{ for i in 0 > 2 { print(i); } for j in 3 >= 2 { print(j); } let k = 7; print(k); }"

ForInFunctionProgram == "let f = fn(a, n) { for i in a >= n { print(i); } let k = 7; return k; }; print(f(0, 1));"

OrProgram == "print(false || true); print(true || false); print(true || print(1)); print(false || false);"

BigFile == [big |-> BigText]

\* Two variables hold separately allocated equal strings; the inner key is
\* built at run time, read back through a constant, and overwritten.
MapProgram ==
    "let a = \"m\" + \"\"; let b = \"\" + \"m\"; a[\"k\" + \"1\"] = 5; print(b[\"k1\"]); "
    \o "b[\"k1\"] = 6; print(a[\"k1\"]); print(a[\"z\"]);"

\* A loop whose body is longer than 255 bytes.
LongLoopProgram ==
    "let i = 0; while i < 1 { " \o Repeated("1;", 90) \o " i = i + 1; } print(i);"

\* 256 constants 1 and then the constants 2 and 3.
ManyConstantsProgram == Doubled("1;", 8) \o "print(2, 3);"

\* An inner block redeclares a, declares b reading b, and the outer block
\* declares a again.
ShadowProgram == "{ let a = 1; { let a = 2; let b = b; } let a = 3; }"

\* a is a global and a local of the top-level block, b a parameter of f and
\* a local of a block of f; f reads and writes a and b.
ResolveProgram ==
    "let a = 7; { let a = 1; let f = fn(b) { { let b = a; b = b + 1; print(b); } a = 9; return b; }; print(f(2), a); } print(a);"

\* Every value printed differs from the one another grouping would give.
PrecedenceProgram ==
    "let x = 1; x[\"k\"] = 2; print(8 - 3 - 2, 1 + 2 * 3, 8 / 4 / 2, -2 + 3, !true == 1, 1 + 2 < 4, 1 == 1 < 2, -abs(3), -x[\"k\"]);"

\* f prints its argument: the output tells the order of the operands.
OrderProgram ==
    "let f = fn(a) { print(a); return a; }; print(f(1) - f(2) * f(3), f(4));"

\* No jump of these expressions is taken when they run.
LogicProgram == "let r = false || true && 1 == 2; let q = true && false || 1 < 2; print(r, q);"

\* The failing addition is on lines 1 and 2, the call of print on line 3.
ErrorLineProgram == "print(1 +\n\"a\"\n);"

\* Conditions and left operands that are a number, null, a string and a
\* native function.
NonBooleanProgram ==
    "if 1 { print(1); } if null { print(2); } if \"s\" { print(3); } if abs { print(4); } let i = 0; while i { print(5); } print(6 && 7, null || 8, \"a\" || false);"

\* A string literal of 2^20 chars: the allocation of the next literal finds
\* bytes_allocated above the first threshold while the compiler is at work.
BigLiteralProgram == "let s = \"" \o BigText \o "\"; print(\"c\", s);"

\* The n-th of the global names gaa, gab, ..., gpp.
GlobalName(n) ==
    "g" \o SubSeq("abcdefghijklmnop", (n \div 16) + 1, (n \div 16) + 1)
        \o SubSeq("abcdefghijklmnop", (n % 16) + 1, (n % 16) + 1)

\* The statements `name;` for the names from lo to hi.
RECURSIVE GlobalReads(_, _)
GlobalReads(lo, hi) ==
    IF lo > hi THEN ""
    ELSE IF lo = hi THEN GlobalName(lo) \o ";"
    ELSE GlobalReads(lo, (lo + hi) \div 2) \o GlobalReads((lo + hi) \div 2 + 1, hi)

\* With the ten natives the program uses MaxGlobals + 10 global names, one
\* more than a u8 counts.
MaxGlobals == 247

ManyGlobalsProgram == GlobalReads(0, MaxGlobals - 1)

\* The statements `let name=null;` for the names from lo to hi.
RECURSIVE Lets(_, _)
Lets(lo, hi) ==
    IF lo > hi THEN ""
    ELSE IF lo = hi THEN "let " \o GlobalName(lo) \o "=null;"
    ELSE Lets(lo, (lo + hi) \div 2) \o Lets((lo + hi) \div 2 + 1, hi)

\* The functions from lo to hi of a chain: each calls the one before it.
RECURSIVE Chain(_, _)
Chain(lo, hi) ==
    IF lo > hi THEN ""
    ELSE IF lo = hi
    THEN "let " \o GlobalName(lo) \o "=fn(){" \o GlobalName(lo - 1) \o "();};"
    ELSE Chain(lo, (lo + hi) \div 2) \o Chain((lo + hi) \div 2 + 1, hi)

\* The calls of the chain reserve ten slots each, which with the ten of the
\* top-level function stay within the 256 slots of Stack::new.
ChainLen == (256 - 10) \div 10

\* The locals of the function at the end of the chain: with them the
\* reservation of its call is one slot above twice the 256 slots.
ManyLocals == 2 * 256 + 1 - 10 * (ChainLen + 2)

\* The function gaa declares its locals after its return.
DeepCallProgram ==
    "let gaa=fn(){return null;" \o Lets(1, ManyLocals) \o "};"
        \o Chain(1, ChainLen) \o GlobalName(ChainLen) \o "();print(1);"

Programs ==
    { [source |-> BigLiteralProgram, files |-> NoFiles],
      [source |-> DeepCallProgram, files |-> NoFiles],
      [source |-> ManyGlobalsProgram, files |-> NoFiles] } \cup
    { [source |-> "print(1 - 2 * 3 / 4, 1 == 1, 1 != 2, 1 < 2, 1 <= 2, 2 > 1, 2 >= 1, !true, -1, null);",
       files |-> NoFiles],
      [source |-> "let f = fn(a, b) { a = a + b; return a; }; let x = 5; print(f(1, 2), x);",
       files |-> NoFiles],
      [source |-> "let s = read(\"big\"); let t = \"a\" + \"b\"; print(\"c\");",
       files |-> BigFile],
      [source |-> "let m = 1; m[\"k\" + \"1\"] = \"v\" + \"2\"; let s = read(\"big\"); let t = \"a\" + \"b\"; print(m[\"k1\"]);",
       files |-> BigFile],
      [source |-> "let g = fn() { return \"a\" + \"b\"; }; let s = read(\"big\"); print(g());",
       files |-> BigFile],
      [source |-> "let i = 0; while i < 2 { i = i + 1; } print(i);",
       files |-> NoFiles],
      [source |-> LongLoopProgram,
       files |-> NoFiles],
      [source |-> ManyConstantsProgram,
       files |-> NoFiles],
      [source |-> "if 1 < 2 { print(1); } else { print(2); } print(3);",
       files |-> NoFiles],
      [source |-> "if false { print(1); } print(2);",
       files |-> NoFiles],
      \* `1;` compiles to 3 bytes and `null;` to 2: a block of 254 bytes.
      [source |-> "if true { " \o Repeated("1;", 84) \o "null; } print(1);",
       files |-> NoFiles],
      [source |-> ForProgram,
       files |-> NoFiles],
      [source |-> ForInFunctionProgram,
       files |-> NoFiles],
      [source |-> AndProgram,
       files |-> NoFiles],
      [source |-> OrProgram,
       files |-> NoFiles],
      [source |-> "let x = 1; x[\"k\"] = 2; print(x[\"k\"]); print(x[\"z\"]);",
       files |-> NoFiles],
      [source |-> MapProgram,
       files |-> NoFiles],
      [source |-> "print(split(\"a b\"), chars(\"xy\"));",
       files |-> NoFiles],
      [source |-> "print(y);",
       files |-> NoFiles],
      [source |-> "y = 1;",
       files |-> NoFiles],
      [source |-> "let x = 5; x = 6; print(x); { let u = \"p\"; let v = u + \"q\"; { let w = v; print(w); } } print(y);",
       files |-> NoFiles],
      [source |-> "let a = ; print(1 +); }",
       files |-> NoFiles],
      [source |-> "print(1); let s = \"abc",
       files |-> NoFiles],
      [source |-> "let 1 = 2; print((1 2)); print(3);",
       files |-> NoFiles],
      [source |-> "@ print(1);",
       files |-> NoFiles],
      [source |-> "print(1 @ 2);",
       files |-> NoFiles],
      [source |-> "print(true & false); print(1 | 2);",
       files |-> NoFiles],
      [source |-> "print(1 + \"a\");",
       files |-> NoFiles],
      [source |-> "print(-\"a\");",
       files |-> NoFiles],
      [source |-> "print(1 < null);",
       files |-> NoFiles],
      [source |-> "print(!1);",
       files |-> NoFiles],
      [source |-> "print(2 * \"a\");",
       files |-> NoFiles],
      [source |-> "let s = \"f\"; s(1);",
       files |-> NoFiles],
      [source |-> "let n = 1; n(2);",
       files |-> NoFiles],
      [source |-> "{ let a = 1; let a = 2; }",
       files |-> NoFiles],
      [source |-> "let f = fn(a, a) { return a; };",
       files |-> NoFiles],
      [source |-> "{ let a = a; }",
       files |-> NoFiles],
      [source |-> "{ let a = 1; { let a = 2; print(a); } print(a); }",
       files |-> NoFiles],
      [source |-> "{ let a = 1; { let a = a; print(a); } }",
       files |-> NoFiles],
      [source |-> ShadowProgram,
       files |-> NoFiles],
      [source |-> ResolveProgram,
       files |-> NoFiles],
      [source |-> PrecedenceProgram,
       files |-> NoFiles],
      [source |-> OrderProgram,
       files |-> NoFiles],
      [source |-> LogicProgram,
       files |-> NoFiles],
      [source |-> ErrorLineProgram,
       files |-> NoFiles],
      [source |-> NonBooleanProgram,
       files |-> NoFiles],
      [source |-> "let x = (1 + 2;",
       files |-> NoFiles],
      [source |-> "let x = 1 +",
       files |-> NoFiles],
      [source |-> "let f = fn(a) { return a; }; f();",
       files |-> NoFiles],
      [source |-> "let f = fn() { }; print(\"a\" == \"a\", \"a\" + \"b\" == \"ab\", f == f, print == print, f == print, 1 == \"1\", null == null, \"a\" != \"b\", \"a\" != \"a\", f != f, f != print, 1 != null);",
       files |-> NoFiles],
      [source |-> "print(num(\"12\") + abs(-3), time() > 0);",
       files |-> NoFiles] }

\* No Compiler has been constructed.
NoCompiler == [status |-> "none"]

\* No constructor of Value has been examined.
NoValue == [made |-> "none", arg |-> {}, bits |-> {}]

\* The machine before main.
NoLexed == [lexer |-> Lexer_new(""), tokens |-> <<>>]

InitMachine ==
    /\ status = "start"
    /\ frames = VM_new.frames
    /\ gc = VM_new.gc
    /\ stack = VM_new.stack
    /\ globals = VM_new.globals
    /\ ip = VM_new.ip
    /\ sp = VM_new.sp
    /\ out = VM_new.out
    /\ log = VM_new.log
    /\ calls = VM_new.calls
    /\ writes = VM_new.writes
    /\ chunks = <<>>
    /\ errors = <<>>
    /\ compiler = NoCompiler
    /\ rule_stack = <<>>

Init ==
    /\ \E p \in Programs : source = p.source /\ files = p.files
    /\ InitMachine
    /\ built = NoValue
    /\ lexed = NoLexed

Next ==
    \/ Main
    \/ Compile
    \/ DefineNatives
    \/ Statement
    \/ Block
    \/ VarDecl
    \/ IfStatement
    \/ WhileLoop
    \/ ForLoop
    \/ ReturnStatement
    \/ ExpressionStatement
    \/ ExpressionBp
    \/ Identifier
    \/ MapAccess
    \/ Function
    \/ CallArgs
    \/ LoadConstant
    \/ Null_
    \/ Pop
    \/ Add
    \/ Sub
    \/ Mul
    \/ Div
    \/ Equal
    \/ NotEqual
    \/ Greater
    \/ GreaterEqual
    \/ Less
    \/ LessEqual
    \/ Negate
    \/ Not
    \/ DefineGlobal
    \/ GetGlobal
    \/ SetGlobal
    \/ GetLocal
    \/ SetLocal
    \/ GetMap
    \/ SetMap
    \/ Jump
    \/ JumpUp
    \/ JumpIfFalse
    \/ JumpIfFalseNoPop
    \/ JumpIfTrueNoPop
    \/ Call
    \/ Return
    \/ WildFetch

Spec == Init /\ [][Next]_vars

(***************************************************************************)
(* The constructors of Value on their own: each action builds one Value    *)
(* from an input drawn from the samples below.                             *)
(***************************************************************************)
\* Exponents of finite f64s (not all of bits 52..62), as sets of bits:
\* zero and subnormals, 1, 1023 (1.0), 2046 (the largest), 2044.
ExponentSamples == {{}, {52}, 52..61, 53..62, 54..62}

\* Mantissas: zero, the two top bits (those QNAN covers), and tag-like low bits.
MantissaSamples == {{}, {51}, {50}, {50, 51}, {0}, {1}, {0, 1}, {2}, 0..51}

Signs == {{}, SIGN_BIT}

\* The patterns of the finite f64s examined.
FiniteFloats ==
    {m \cup e \cup s : s \in Signs, e \in ExponentSamples, m \in MantissaSamples}

\* Addresses that fit in the low 50 bits, the lowest and highest among them.
PointerBits == {0, 1, 2, 3, 48, 49}

Pointers == (SUBSET PointerBits) \ {{}}

machine_vars ==
    <<source, files, status, frames, gc, stack, globals, ip, sp, out, log, calls,
      writes, chunks, errors, compiler, rule_stack>>

Built(made, arg, bits) ==
    /\ built' = [made |-> made, arg |-> arg, bits |-> bits]
    /\ UNCHANGED <<machine_vars, lexed>>

MakeFloat == \E x \in FiniteFloats : Built("float", x, Bits_float(x))

MakeBool == \E b \in BOOLEAN : Built("bool", IF b THEN {0} ELSE {}, Bits_bool(b))

MakeNull == Built("null", {}, Bits_NULL)

MakeUndef == Built("undef", {}, Bits_UNDEF)

MakeObj == \E p \in Pointers : Built("obj", p, Bits_obj(p))

InitValue ==
    /\ source = ""
    /\ files = NoFiles
    /\ InitMachine
    /\ built = NoValue
    /\ lexed = NoLexed

NextValue ==
    \/ MakeFloat
    \/ MakeBool
    \/ MakeNull
    \/ MakeUndef
    \/ MakeObj

SpecValue == InitValue /\ [][NextValue]_vars

(***************************************************************************)
(* The lexer on its own: next_token is called on a text until it returns   *)
(* Eof or never returns.                                                   *)
(***************************************************************************)
LexerSources ==
    { "else fn false for if in let null return true while",
      "elsex fnord falsey fort iffy index lets nullx returns truex whiles",
      "e f fa fo i l n r t w el fals whil _if x1 If",
      "in1 if_ fn2 inner",
      "1 12 1.5 1. 1.2.3 007 1a",
      "\"a\" \"\" \"a b\" \"if\" \"1\"",
      "\"x\ny\" z\n\"u\n\nv\" w",
      "a\nb\n\n  c\n",
      "// c\nx // d\n",
      "x // c",
      "x \"abc",
      "1 & 2 | 3 && ||",
      "+-*/ == != >= <= > < = ! ( ) [ ] { } ; ,",
      "@ x\t\ry" }

LastToken == lexed.tokens[Len(lexed.tokens)]

NextToken ==
    /\ ~lexed.lexer.hang
    /\ lexed.tokens # <<>> => ~(LastToken.ok /\ LastToken.kind = "Eof")
    /\ LET lx == next_token(lexed.lexer)
       IN lexed' = [lexer |-> lx,
                    tokens |-> IF lx.hang THEN lexed.tokens
                               ELSE Append(lexed.tokens, lx.ret)]
    /\ UNCHANGED <<machine_vars, built>>

InitLexer ==
    /\ source \in LexerSources
    /\ files = NoFiles
    /\ InitMachine
    /\ built = NoValue
    /\ lexed = [lexer |-> Lexer_new(source), tokens |-> <<>>]

SpecLexer == InitLexer /\ [][NextToken]_vars

(***************************************************************************)
(* Properties of the language implementation, one per claim.               *)
(***************************************************************************)
\* The innermost call frame.
CurFrame == frames[Len(frames)]

\* The function object the innermost frame runs, when it is allocated.
CurFunction == gc.objects[CurFrame.function]

\* The collector: the compiler owns the VM until compile returns it.
Heap == IF status = "compiling" THEN compiler.vm.gc ELSE gc

\* The loop of run is about to take the arm `name`.
At(name) == Running /\ Fetch = OpCode(name)

\* The n-th operand byte of the instruction the loop is about to execute.
Operand(n) == CurFunction.code[ip + 1 + n]

\* The value on top of the stack.
TopValue == stack.mem[sp - 1]

\* The turn of the loop ended in the loop: no error, no undefined behaviour.
Stepped == status' = "running"

\* C1: while a function runs, the value-stack slots in use above the origin
\* of its frame never exceed the stack_effect recorded in the function.
C1_StackEffectSound ==
    (status = "running" /\ Allocated(gc, CurFrame.function)) =>
        sp - CurFrame.fp_offset <= CurFunction.stack_effect

\* C2: after every collection, every object that a live stack slot, the
\* function field of a live call frame or a slot of the globals vector
\* referenced when the collection started is still allocated.
C2_DirectRootsSurvive == \A i \in DOMAIN log : log[i].direct \subseteq log[i].after

\* A collection that freed objects ran inside a call of a user function,
\* with objects referenced from the stack.
C2_Witness ==
    \E i \in DOMAIN log :
        /\ log[i].on_stack # {}
        /\ Cardinality(log[i].in_frames) > 1
        /\ log[i].after # log[i].before

\* C3: after every collection, every object that was an outer key, an inner
\* key or a value of the keyed-map store when the collection started is
\* still allocated.
C3_MapEntriesSurvive == \A i \in DOMAIN log : log[i].inmap \subseteq log[i].after

\* C4: after every collection, every object reachable from a root through
\* the constant pools of function objects (the constants of a function in
\* a call frame, on the stack or in a global, and of the functions nested
\* in it) is still allocated.
C4_FunctionConstantsSurvive ==
    \A i \in DOMAIN log : log[i].reach_direct \subseteq log[i].after

\* C5: a collection frees exactly the allocated objects that were not
\* marked, at least one unreachable object if there was any, decreases
\* bytes_allocated by the sizes of the freed objects, and leaves no object
\* marked and the grey worklist empty; between collections no object is
\* marked.
C5_Sweep ==
    /\ \A i \in DOMAIN log :
         /\ log[i].after = log[i].marked
         /\ (log[i].before \ log[i].reach # {}) => (log[i].before \ log[i].after # {})
         /\ log[i].bytes_after = log[i].bytes_before - log[i].freed_bytes
         /\ log[i].marked_after = {}
         /\ log[i].greys_after = 0
    /\ MarkedSet(Heap) = {}
    /\ Heap.greys = <<>>

\* A collection freed some objects and kept others.
C5_Witness ==
    \E i \in DOMAIN log :
        /\ log[i].after # {}
        /\ log[i].before \ log[i].after # {}
        /\ log[i].freed_bytes > 0

\* C6: in every call frame SetLocal k stores the top of the stack into slot
\* fp_offset + k of the frame, without popping it and changing no other
\* slot, and GetLocal k pushes the content of that slot.  The two steps:
C6_SetLocalStep ==
    (At("SetLocal") /\ Stepped) =>
        /\ sp' = sp
        /\ stack'.mem = [j \in DOMAIN stack.mem \cup {CurFrame.fp_offset + Operand(1)} |->
                           IF j = CurFrame.fp_offset + Operand(1) THEN TopValue
                           ELSE stack.mem[j]]

C6_GetLocalStep ==
    (At("GetLocal") /\ Stepped) =>
        /\ sp' = sp + 1
        /\ stack'.mem[sp] = stack.mem[CurFrame.fp_offset + Operand(1)]

C6_FrameRelativeLocals == [][C6_SetLocalStep /\ C6_GetLocalStep]_vars

\* C7: a Return that matches a Call of a user function pops the frame,
\* leaves the stack top at the top before the Call minus argc with the
\* returned value in the callee's slot and the slots below it unchanged,
\* and resumes right after the Call; a Call of a user function pushes one
\* frame, and a Call of a native pushes none and has the same net effect
\* on the stack.  The three steps:
C7_ReturnStep ==
    (At("Return") /\ Len(frames) > 1 /\ Stepped) =>
        /\ frames' = SubSeq(frames, 1, Len(frames) - 1)
        /\ sp' = calls[Len(calls)].sp - calls[Len(calls)].arg_count
        /\ stack'.mem[sp' - 1] = TopValue
        /\ StackSlots(stack', sp' - 1) = calls[Len(calls)].below
        /\ ip' = calls[Len(calls)].ip

C7_CallStep ==
    (At("Call") /\ Stepped /\ Len(frames') > Len(frames)) =>
        /\ Len(frames') = Len(frames) + 1
        /\ frames'[Len(frames')].function = as_obj(stack.mem[sp - 1 - Operand(1)])
        /\ frames'[Len(frames')].fp_offset = sp - Operand(1)
        /\ sp' = sp
        /\ ip' = 0

C7_NativeCallStep ==
    (At("Call") /\ Stepped /\ Len(frames') = Len(frames)) =>
        /\ sp' = sp - Operand(1)
        /\ StackSlots(stack', sp' - 1) = StackSlots(stack, sp' - 1)
        /\ ip' = ip + 2

C7_CallReturnProtocol == [][C7_ReturnStep /\ C7_CallStep /\ C7_NativeCallStep]_vars

\* The slot of the globals vector the instruction about to execute names.
GlobalSlot == globals.globals[Operand(1) + 1]

\* C8: GetGlobal or SetGlobal on a slot of the globals vector that holds
\* undef raises a runtime error: nothing is pushed, the slot stays undef and
\* no later instruction executes; on a defined slot GetGlobal pushes the
\* value of the slot, which only DefineGlobal (the popped value) and
\* SetGlobal (the top of the stack) store into.  The steps:
C8_UndefStep ==
    ((At("GetGlobal") \/ At("SetGlobal")) /\ is_undef(GlobalSlot)) =>
        /\ status' = "runtime_error"
        /\ sp' = sp
        /\ stack' = stack
        /\ globals' = globals

C8_DefinedStep ==
    (At("GetGlobal") /\ ~is_undef(GlobalSlot)) =>
        /\ status' = "running"
        /\ sp' = sp + 1
        /\ stack'.mem[sp] = GlobalSlot

C8_StoreStep ==
    /\ (At("DefineGlobal") /\ Stepped) =>
          globals'.globals = [globals.globals EXCEPT ![Operand(1) + 1] = TopValue]
    /\ (At("SetGlobal") /\ Stepped) =>
          globals'.globals = [globals.globals EXCEPT ![Operand(1) + 1] = TopValue]
    /\ (status = "running" /\ ~At("DefineGlobal") /\ ~At("SetGlobal")) =>
          globals'.globals = globals.globals

C8_ErrorIsFinal == status = "runtime_error" => UNCHANGED vars

C8_UndefinedGlobal ==
    [][C8_UndefStep /\ C8_DefinedStep /\ C8_StoreStep /\ C8_ErrorIsFinal]_vars

\* A GetGlobal pushed the value a SetGlobal had stored, which was printed,
\* and a later GetGlobal met a slot that no DefineGlobal had filled.
C8_Witness ==
    /\ status = "runtime_error"
    /\ Len(out) > 0
    /\ out[1] = "6"
    /\ is_undef(globals.globals[Len(globals.globals)])

\* The VM: the compiler owns it until compile returns it.
Vm == IF status = "compiling" THEN compiler.vm ELSE Machine([files |-> files])

\* C9: the undef sentinel occurs only in slots of the globals vector: no
\* slot of the value stack, no constant of a function object, no key and no
\* value of the keyed-map store holds undef (so a load pushes none and a
\* native is passed none).
C9_UndefOnlyInGlobals ==
    /\ \A i \in DOMAIN Vm.stack.mem : ~is_undef(Vm.stack.mem[i])
    /\ \A p \in DOMAIN Vm.gc.objects :
         \A i \in DOMAIN Vm.gc.objects[p].constants :
            ~is_undef(Vm.gc.objects[p].constants[i])
    /\ \A i \in DOMAIN Vm.globals.global_map :
         /\ ~is_undef(Vm.globals.global_map[i].k)
         /\ \A j \in DOMAIN Vm.globals.global_map[i].m :
              /\ ~is_undef(Vm.globals.global_map[i].m[j].k)
              /\ ~is_undef(Vm.globals.global_map[i].m[j].v)

\* A native is about to be called with the value of a global as its
\* argument while another slot of the globals vector holds undef.
C9_Witness ==
    /\ At("Call")
    /\ \E i \in DOMAIN globals.globals : is_undef(globals.globals[i])
    /\ Operand(1) = 1
    /\ TopValue = Value_float(6, 1)

\* The two operand bytes of the forward jump at offset idx of code.
JumpOperand(code, idx) == <<code[idx + 1], code[idx + 2]>>

\* The number of times the jump at idx occurs in the sequence patches.
TimesPatched(patches, idx) == Cardinality({i \in DOMAIN patches : patches[i] = idx})

\* C10: in a compile without a reported error, every forward jump emitted
\* into a finished chunk has been patched exactly once, and its two operand
\* bytes no longer hold the placeholder 0xFF 0xFF.
C10_JumpsPatched ==
    errors = <<>> =>
        \A n \in DOMAIN chunks :
            \A i \in DOMAIN chunks[n].jumps :
                /\ TimesPatched(chunks[n].patches, chunks[n].jumps[i]) = 1
                /\ JumpOperand(chunks[n].code, chunks[n].jumps[i]) # <<255, 255>>

\* A 16-bit distance as the two bytes of an operand, big-endian.
BigEndian(distance) == <<(distance \div 256) % 256, distance % 256>>

\* The loop of run is about to take a forward jump: an unconditional Jump,
\* or a conditional jump whose condition says jump.
TakesJump ==
    \/ At("Jump")
    \/ At("JumpIfFalse") /\ ~as_bool(TopValue)
    \/ At("JumpIfFalseNoPop") /\ ~as_bool(TopValue)
    \/ At("JumpIfTrueNoPop") /\ as_bool(TopValue)

\* The emit position at the time the jump whose operand is at offset idx of
\* the running function's chunk was patched.
PatchTarget(idx) ==
    LET ch == CHOOSE ch \in {chunks[n] : n \in DOMAIN chunks} :
                  ch.code = CurFunction.code
        k == CHOOSE k \in DOMAIN ch.patches : ch.patches[k] = idx
    IN ch.targets[k]

\* C11: after patch_jump the two operand bytes of a forward jump hold,
\* big-endian, the distance from the byte after the operand to the emit
\* position at patch time, and a jump the VM takes sets ip to that emit
\* position.
C11_OperandIsDistance ==
    \A n \in DOMAIN chunks :
        \A k \in DOMAIN chunks[n].patches :
            JumpOperand(chunks[n].code, chunks[n].patches[k]) =
                BigEndian(chunks[n].targets[k] - (chunks[n].patches[k] + 2))

C11_TakenJumpStep == TakesJump => ip' = PatchTarget(ip + 1)

C11_ForwardJumpTarget == []C11_OperandIsDistance /\ [][C11_TakenJumpStep]_vars

\* The scopes closed so far.
Scopes == IF compiler = NoCompiler THEN <<>> ELSE compiler.scopes

\* C12: in a compile without errors every end_scope emits exactly one Pop
\* per local declared in the scope it closes and nothing else, removes
\* exactly those locals from the end of the locals vector and decreases
\* current_stack_effect by their number, so that the length of locals, the
\* scope depth and the current stack effect are again what the matching
\* begin_scope found.
C12_ScopeDiscipline ==
    \A i \in DOMAIN Scopes :
        ~Scopes[i].had_error =>
            /\ Scopes[i].emitted = [j \in 1..Scopes[i].begun.declared |-> OpCode("Pop")]
            /\ Scopes[i].removed = Scopes[i].begun.declared
            /\ Scopes[i].kept
            /\ Scopes[i].effect = Scopes[i].begun.declared
            /\ Scopes[i].locals = Scopes[i].begun.locals
            /\ Scopes[i].scope_depth = Scopes[i].begun.scope_depth
            /\ Scopes[i].current_stack_effect = Scopes[i].begun.current_stack_effect

\* A compile without errors closed a scope with two locals declared in it
\* and a scope nested in another scope that holds a local.
C12_Witness ==
    /\ errors = <<>>
    /\ \E i \in DOMAIN Scopes : Scopes[i].begun.declared = 2
    /\ \E i \in DOMAIN Scopes : Scopes[i].begun.scope_depth > 0 /\ Scopes[i].begun.locals > 0

\* C13: `a && b` with a false, and `a || b` with a true, execute no
\* instruction of b and leave a as the one value of the expression;
\* otherwise the value of b is the one value of the expression.  The step
\* of the no-pop jump: it goes to the end of the expression with a left on
\* top when it short-circuits, and else goes on to the Pop of a and to b.
C13_JumpStep ==
    /\ ((At("JumpIfFalseNoPop") /\ TopValue = Value_FALSE) \/
        (At("JumpIfTrueNoPop") /\ TopValue = Value_TRUE)) =>
          /\ ip' = PatchTarget(ip + 1)
          /\ sp' = sp
          /\ stack' = stack
    /\ ((At("JumpIfFalseNoPop") /\ TopValue = Value_TRUE) \/
        (At("JumpIfTrueNoPop") /\ TopValue = Value_FALSE)) =>
          /\ ip' = ip + 3
          /\ sp' = sp
          /\ stack' = stack
          /\ CurFunction.code[ip' + 1] = OpCode("Pop")

\* What the two programs print, b being print(1) in the third statement of
\* each: every expression is one value, and print(1) never runs.
C13_Results ==
    /\ source \in {AndProgram, OrProgram} =>
          status \in {"start", "compiling", "running", "done"}
    /\ (source = AndProgram /\ status = "done") =>
          out = <<"false", "false", "false", "true">>
    /\ (source = OrProgram /\ status = "done") =>
          out = <<"true", "true", "true", "false">>

C13_ShortCircuit == []C13_Results /\ [][C13_JumpStep]_vars

\* The operands of the binary instruction about to execute.
Lhs == stack.mem[sp - 2]

Rhs == stack.mem[sp - 1]

\* number, boolean, null or object.
Category(v) == v.tag

IsStringValue(v) == is_obj(v) /\ gc.objects[as_obj(v)].kind = "String"

\* C14: Equal yields true on two string objects with the same bytes, also
\* when they are separately allocated; on two objects that are not both
\* strings it yields true iff they are the same object; on values of
\* different categories it yields false; NotEqual yields the negation.
EqualAsClaimed(a, b) ==
    IF IsStringValue(a) /\ IsStringValue(b)
    THEN gc.objects[as_obj(a)].value = gc.objects[as_obj(b)].value
    ELSE IF is_obj(a) /\ is_obj(b) THEN as_obj(a) = as_obj(b)
    ELSE IF Category(a) # Category(b) THEN FALSE
    ELSE a = b

C14_EqualStep ==
    /\ (At("Equal") /\ Stepped) =>
          /\ sp' = sp - 1
          /\ stack'.mem[sp' - 1] = Value_bool(EqualAsClaimed(Lhs, Rhs))
    /\ (At("NotEqual") /\ Stepped) =>
          /\ sp' = sp - 1
          /\ stack'.mem[sp' - 1] = Value_bool(~EqualAsClaimed(Lhs, Rhs))

C14_Equality == [][C14_EqualStep]_vars

\* Equal has just compared two separately allocated strings with the same
\* bytes and pushed true (its right operand is still in the slot above).
C14_Witness ==
    /\ status = "running"
    /\ ip \in DOMAIN CurFunction.code
    /\ CurFunction.code[ip] = OpCode("Equal")
    /\ TopValue = Value_TRUE
    /\ sp \in DOMAIN stack.mem
    /\ IsStringValue(stack.mem[sp])
    /\ gc.objects[as_obj(stack.mem[sp])].value = "ab"

\* The predicates that hold of a pattern.
Categories(v) ==
    {c \in {"float", "bool", "null", "undef", "obj"} :
        CASE c = "float" -> Bits_is_float(v)
          [] c = "bool" -> Bits_is_bool(v)
          [] c = "null" -> Bits_is_null(v)
          [] c = "undef" -> Bits_is_undef(v)
          [] c = "obj" -> Bits_is_obj(v)}

\* C15: a Value built by a constructor satisfies exactly one of is_float,
\* is_bool, is_null, is_undef, is_obj, the one of its constructor;
\* as_float(float(x)) is x bit for bit, as_obj(obj(p)) is p, bool(true) is
\* TRUE and bool(false) is FALSE, which differ only in bit 0.
C15_ValueEncoding ==
    built.made # "none" =>
        /\ Categories(built.bits) = {built.made}
        /\ built.made = "float" => Bits_as_float(built.bits) = built.arg
        /\ built.made = "obj" => Bits_as_obj(built.bits) = built.arg
        /\ built.made = "bool" =>
              /\ built.bits = (IF built.arg = {0} THEN Bits_TRUE ELSE Bits_FALSE)
              /\ Bits_as_bool(built.bits) = (built.arg = {0})
        /\ (Bits_TRUE \ Bits_FALSE) \cup (Bits_FALSE \ Bits_TRUE) = {0}

\* A negative finite f64 whose exponent and mantissa have every bit of QNAN
\* but one was made a Value.
C15_Witness ==
    /\ built.made = "float"
    /\ built.bits = SIGN_BIT \cup (53..62) \cup {50, 51}

IsPrefix(s, t) == Len(s) <= Len(t) /\ s = SubSeq(t, 1, Len(s))

\* What either program prints if its for loops iterate as claimed.
ForOutput == <<"0", "1", "7">>

\* C16: `for i in A > B` runs its body for i = A, ..., B - 1 and
\* `for i in A >= B` for i = A, ..., B, in increasing order and not at all
\* when the range is empty, at top level and in a function, with literal
\* and variable bounds, and leaves the stack as high as it found it: the
\* two programs print the values of i in order, then 7, and end.
C16_ForLoop ==
    source \in {ForProgram, ForInFunctionProgram} =>
        /\ status \in {"start", "compiling", "running", "done"}
        /\ IsPrefix(out, ForOutput)
        /\ status = "done" => out = ForOutput

\* Programs with a lexer failure: an unrecognised character as the first
\* token and inside a statement, an unterminated string, a lone & and |.
LexerFailurePrograms ==
    {"@ print(1);", "print(1 @ 2);", "print(1); let s = \"abc",
     "print(true & false); print(1 | 2);"}

\* C17: a lexer failure, wherever its token is in the source, never ends
\* the compiler by a panic: it is reported as a compile error, lexing goes
\* on to the end of the input, and compile ends with exit code 101.
C17_LexerFailures ==
    source \in LexerFailurePrograms =>
        /\ status # "panic"
        /\ status \notin {"start", "compiling"} =>
              /\ status = "compile_error"
              /\ errors # <<>>
              /\ compiler.parser.had_error
              /\ compiler.parser.current.kind = "Eof"

\* The compiler is at work.
Compiling == status = "compiling"

\* C18: once a compile error has been reported the compiler goes on
\* parsing to the end of the input and then exits with code 101, run
\* executes no instruction, and had_error is never cleared; a compile
\* without a reported error returns a VM whose only frame runs the
\* top-level function from its first byte.
C18_AfterError ==
    errors # <<>> =>
        /\ status \in {"compiling", "compile_error"}
        /\ compiler.parser.had_error
        /\ status = "compile_error" => compiler.parser.current.kind = "Eof"

C18_CompileStep ==
    /\ (Compiling /\ compiler.parser.had_error) => compiler'.parser.had_error
    /\ (status \in {"start", "compiling"} /\ ~Compiling' /\ errors' = <<>>) =>
          /\ status' = "running"
          /\ Len(frames') = 1
          /\ gc'.objects[frames'[1].function].code = chunks'[Len(chunks')].code
          /\ ip' = 0

C18_NoRunAfterCompileError == []C18_AfterError /\ [][C18_CompileStep]_vars

\* The value a Call is about to call: the slot below its arguments.
Callee == stack.mem[sp - 1 - Operand(1)]

IsFunctionValue(v) == is_obj(v) /\ gc.objects[as_obj(v)].kind = "Function"

IsNativeValue(v) == is_obj(v) /\ gc.objects[as_obj(v)].kind = "Native"

\* The instruction about to execute meets one of the conditions that are
\* runtime errors.
TypeError ==
    \/ /\ \E name \in {"Sub", "Mul", "Div", "Greater", "GreaterEqual", "Less",
                       "LessEqual"} : At(name)
       /\ ~is_float(Lhs) \/ ~is_float(Rhs)
    \/ /\ At("Add")
       /\ ~(is_float(Lhs) /\ is_float(Rhs))
       /\ ~(IsStringValue(Lhs) /\ IsStringValue(Rhs))
    \/ At("Negate") /\ ~is_float(TopValue)
    \/ At("Not") /\ ~is_bool(TopValue)
    \/ At("Call") /\ ~IsFunctionValue(Callee) /\ ~IsNativeValue(Callee)
    \/ /\ At("Call")
       /\ IsFunctionValue(Callee)
       /\ gc.objects[as_obj(Callee)].arity # Operand(1)

\* C19: an arithmetic operation or comparison on a non-float, an Add of
\* operands that are neither two floats nor two strings, a Negate of a
\* non-float, a Not of a non-boolean, a Call of a value that is no function
\* and no native, and a Call of a function with the wrong number of
\* arguments each end the run in the error state: nothing is written to
\* the stack, no frame is pushed, and nothing happens afterwards.
C19_ErrorStep ==
    /\ TypeError =>
          /\ status' = "runtime_error"
          /\ stack'.mem = stack.mem
          /\ sp' <= sp
          /\ Len(frames') = Len(frames)
          /\ out' = out
    /\ status = "runtime_error" => UNCHANGED vars

C19_RuntimeErrorsFatal == [][C19_ErrorStep]_vars

\* A user function of one parameter was called without arguments: the run
\* ended in the error state with the frame of the top level only.
C19_Witness ==
    /\ source = "let f = fn(a) { return a; }; f();"
    /\ status = "runtime_error"
    /\ Len(frames) = 1

\* The insertions so far under an outer value and an inner key equal by
\* value to o and i.
WrittenAt(o, i) ==
    {n \in DOMAIN writes : /\ writes[n].outer = KeyOf(gc, o)
                           /\ writes[n].inner = KeyOf(gc, i)}

LastWritten(o, i) ==
    writes[CHOOSE n \in WrittenAt(o, i) : \A m \in WrittenAt(o, i) : m <= n].value

\* C20: SetMap leaves the assigned value as the one value on the stack in
\* place of its three operands and records it under (outer, inner); GetMap
\* with an outer value and an inner key equal by value to those of an
\* earlier insertion pushes the value inserted last under them; GetMap for
\* a pair never written is a runtime error.
C20_MapStep ==
    /\ At("SetMap") =>
          /\ status' = "running"
          /\ sp' = sp - 2
          /\ stack'.mem[sp' - 1] = TopValue
          /\ writes' = Append(writes, [outer |-> KeyOf(gc, stack.mem[sp - 3]),
                                       inner |-> KeyOf(gc, stack.mem[sp - 2]),
                                       value |-> TopValue])
    /\ (At("GetMap") /\ WrittenAt(Lhs, Rhs) # {}) =>
          /\ status' = "running"
          /\ sp' = sp - 1
          /\ stack'.mem[sp' - 1] = LastWritten(Lhs, Rhs)
    /\ (At("GetMap") /\ WrittenAt(Lhs, Rhs) = {}) => status' = "runtime_error"

C20_MapRoundTrip == [][C20_MapStep]_vars

\* The keywords and the TokenKind of each.
Keywords ==
    [w \in {"else", "fn", "false", "for", "if", "in", "let", "null", "return",
            "true", "while"} |->
        CASE w = "else" -> "Else" [] w = "fn" -> "Fn" [] w = "false" -> "False"
          [] w = "for" -> "For" [] w = "if" -> "If" [] w = "in" -> "In"
          [] w = "let" -> "Let" [] w = "null" -> "Null"
          [] w = "return" -> "Return" [] w = "true" -> "True"
          [] w = "while" -> "While"]

\* The text of a token the lexer returned.
Lexeme(t) == Slice(source, t.start, t.end)

\* The tokens returned so far that begin with a letter or an underscore.
WordTokens ==
    {n \in DOMAIN lexed.tokens :
        /\ lexed.tokens[n].ok
        /\ lexed.tokens[n].start < Len(source)
        /\ is_alpha(SubSeq(source, lexed.tokens[n].start + 1,
                           lexed.tokens[n].start + 1))}

\* C21: a token that begins with a letter or an underscore spans a maximal
\* run of identifier characters; it is the keyword token of its text if the
\* text is exactly a keyword, and an identifier otherwise.
C21_Keywords ==
    \A n \in WordTokens :
       LET t == lexed.tokens[n]
       IN /\ \A i \in t.start..(t.end - 1) :
                is_alphanumeric(SubSeq(source, i + 1, i + 1))
          /\ t.end < Len(source) =>
                ~is_alphanumeric(SubSeq(source, t.end + 1, t.end + 1))
          /\ t.kind = (IF Lexeme(t) \in DOMAIN Keywords THEN Keywords[Lexeme(t)]
                       ELSE "Ident")

\* The first token of the text of t, lexed on its own.
Relexed(t) == next_token(Lexer_new(Lexeme(t))).ret

\* C22: the text of every identifier, number and string token, lexed on
\* its own, gives a first token of the same kind that spans the whole text.
C22_RoundTrip ==
    \A n \in DOMAIN lexed.tokens :
       LET t == lexed.tokens[n]
       IN (t.ok /\ t.kind \in {"Ident", "Number", "String"}) =>
             /\ Relexed(t).ok
             /\ Relexed(t).kind = t.kind
             /\ Relexed(t).start = 0
             /\ Relexed(t).end = t.end - t.start

\* An identifier and a string that spans three lines have been lexed out of
\* the middle of a text.
C22_Witness ==
    /\ \E n \in DOMAIN lexed.tokens :
          /\ lexed.tokens[n].ok
          /\ lexed.tokens[n].kind = "String"
          /\ lexed.tokens[n].start > 0
          /\ Lexeme(lexed.tokens[n]) = "\"u\n\nv\""
    /\ \E n \in DOMAIN lexed.tokens :
          lexed.tokens[n].ok /\ lexed.tokens[n].kind = "Ident"
    /\ lexed.lexer.line = 5

\* The offsets just after the newlines of the text that the lexer has
\* passed: where the lines after the first begin.
LineStarts ==
    {i + 1 : i \in {j \in 0..(Len(source) - 1) :
                      /\ j < lexed.lexer.position
                      /\ SubSeq(source, j + 1, j + 1) = "\n"}}

\* C30: lines has one entry per line the lexer has reached, the offset of
\* the first byte of that line, also when a newline is inside a string
\* literal; so for every token lines[token.line - 1] is in range and at
\* most token.start.
C30_LineTable ==
    /\ Len(lexed.lexer.lines) = lexed.lexer.line
    /\ {lexed.lexer.lines[k] : k \in DOMAIN lexed.lexer.lines} = {0} \cup LineStarts
    /\ \A k \in DOMAIN lexed.lexer.lines :
          \A m \in DOMAIN lexed.lexer.lines :
             k < m => lexed.lexer.lines[k] < lexed.lexer.lines[m]
    /\ \A n \in DOMAIN lexed.tokens :
          LET t == lexed.tokens[n]
          IN t.ok => /\ t.line \in DOMAIN lexed.lexer.lines
                     /\ lexed.lexer.lines[t.line] <= t.start

\* C29: every call of next_token returns, also in a text that ends inside
\* a `//` comment, and each call consumes at least one byte, so that
\* repeated calls reach the end of the text and return Eof.
C29_NextTokenReturns ==
    /\ ~lexed.lexer.hang
    /\ Len(lexed.tokens) <= lexed.lexer.position

\* The chunk of the running function, as the compiler finished it.
CurChunk ==
    CHOOSE ch \in {chunks[n] : n \in DOMAIN chunks} : ch.code = CurFunction.code

\* The target push_loop was called with for the JumpUp at offset at of the
\* running function's chunk.
LoopTarget(at) ==
    LET k == CHOOSE k \in DOMAIN CurChunk.loops : CurChunk.loops[k].at = at
    IN CurChunk.loops[k].target

\* C23: the JumpUp that push_loop(target) emits holds, big-endian, the
\* distance from the byte after its operand back to target, and executing
\* it sets ip to target; target is not after the JumpUp, and a distance
\* above 65535 is reported as the compile error 'loop too long'.
C23_Emitted ==
    \A n \in DOMAIN chunks :
        \A k \in DOMAIN chunks[n].loops :
            LET at == chunks[n].loops[k].at
                target == chunks[n].loops[k].target
            IN /\ 0 <= target /\ target <= at
               /\ chunks[n].code[at + 1] = OpCode("JumpUp")
               /\ IF at + 3 - target <= 65535
                  THEN JumpOperand(chunks[n].code, at + 1) = BigEndian(at + 3 - target)
                  ELSE \E e \in DOMAIN errors : errors[e] = "loop too long"

C23_JumpUpStep ==
    At("JumpUp") => /\ status' = "running"
                    /\ ip' = LoopTarget(ip)
                    /\ sp' = sp
                    /\ Len(frames') = Len(frames)

BigEndian3(idx) == <<(idx \div 65536) % 256, (idx \div 256) % 256, idx % 256>>

\* C24: the k-th constant added to a chunk is at position k - 1 of its
\* pool; its load is LoadConstant with that index in one operand byte for
\* indices up to 255, and LoadConstantExt with the index in three
\* big-endian bytes above; and the VM executing the load pushes that
\* constant.
C24_Emitted ==
    \A n \in DOMAIN chunks :
        /\ Len(chunks[n].constants) = Len(chunks[n].consts)
        /\ \A k \in DOMAIN chunks[n].consts :
              LET at == chunks[n].consts[k].at
                  code == chunks[n].code
              IN /\ chunks[n].constants[k] = chunks[n].consts[k].value
                 /\ IF k - 1 <= 255
                    THEN /\ code[at + 1] = OpCode("LoadConstant")
                         /\ code[at + 2] = k - 1
                    ELSE /\ code[at + 1] = OpCode("LoadConstantExt")
                         /\ <<code[at + 2], code[at + 3], code[at + 4]>> =
                               BigEndian3(k - 1)

\* The constant whose load was emitted at offset at of the running chunk.
ConstantAt(at) ==
    LET k == CHOOSE k \in DOMAIN CurChunk.consts : CurChunk.consts[k].at = at
    IN CurChunk.consts[k].value

C24_LoadStep ==
    (At("LoadConstant") \/ At("LoadConstantExt")) =>
        /\ status' = "running"
        /\ sp' = sp + 1
        /\ stack'.mem[sp] = ConstantAt(ip)

C24_ConstantEmission == []C24_Emitted /\ [][C24_LoadStep]_vars

\* The collections so far: the compiler's VM is the VM that runs.
Collections == IF status = "compiling" THEN compiler.vm.log ELSE log

\* Every collection found bytes_allocated above next_gc, the first one
\* found next_gc at 1 MiB and every later one as the one before left it,
\* and next_gc is now what the last collection left.
GcGated ==
    /\ \A i \in DOMAIN Collections :
          /\ Collections[i].bytes_before > Collections[i].next_gc_before
          /\ Collections[i].next_gc_before =
                (IF i = 1 THEN 1024 * 1024 ELSE Collections[i - 1].next_gc_after)
    /\ Heap.next_gc = (IF Collections = <<>> THEN 1024 * 1024
                       ELSE Collections[Len(Collections)].next_gc_after)

\* A step in which a collection ran is a step that allocated: an object is
\* allocated afterwards that is not among those the last collection left.
GcInsideAlloc ==
    Len(log') > Len(log) =>
        AllocatedSet(gc') \ log'[Len(log')].after # {}

\* C25 as stated: a collection happens only inside an allocation and only
\* when bytes_allocated > next_gc; next_gc is 1 MiB initially and after
\* every collection twice its value before that collection.
C25_ThresholdDoubles ==
    /\ [](GcGated /\ \A i \in DOMAIN Collections :
                        Collections[i].next_gc_after =
                            2 * Collections[i].next_gc_before)
    /\ [][GcInsideAlloc]_vars

\* C25 amended: a collection happens only inside an allocation and only
\* when bytes_allocated > next_gc; next_gc is 1 MiB initially and after
\* every collection HEAP_GROW_FACTOR = 2 times bytes_allocated as the
\* sweep of that collection left it.
C25_ThresholdFollowsHeap ==
    /\ [](GcGated /\ \A i \in DOMAIN Collections :
                        Collections[i].next_gc_after =
                            HEAP_GROW_FACTOR * Collections[i].bytes_after)
    /\ [][GcInsideAlloc]_vars

\* A collection has run that left some bytes allocated, and next_gc is not
\* twice what it was.
C25_Witness ==
    /\ log # <<>>
    /\ log[1].bytes_after > 0
    /\ log[1].next_gc_after # 2 * log[1].next_gc_before
    /\ gc.next_gc = 2 * log[1].bytes_after

\* The objects the i-th collection freed.
Swept(i) == log[i].before \ log[i].after

\* run returns in this step.
RunReturns == status = "running" /\ status' = "done"

\* No slot of the heap is ever given to a second object: the objects vector
\* never shrinks and a freed slot stays empty, so an address names one
\* object over the whole execution.
C26_SlotsNotReused ==
    /\ Len(Heap'.objects) >= Len(Heap.objects)
    /\ \A p \in 1..Len(Heap.objects) :
          Heap.objects[p].kind = "None" => Heap'.objects[p].kind = "None"

\* run returns from the Return arm with one frame left, and that step frees
\* exactly the objects still allocated, none of which a sweep had freed.
C26_ReturnStep ==
    RunReturns =>
        /\ At("Return")
        /\ Len(frames) = 1
        /\ AllocatedSet(gc') = {}
        /\ Len(gc'.objects) = Len(gc.objects)
        /\ \A i \in DOMAIN log : Swept(i) \cap AllocatedSet(gc) = {}

\* C26: run returns only when Return executes with exactly one frame left;
\* every object still allocated is freed then, each allocated object is
\* freed exactly once over the execution (by a sweep or by free_everything,
\* never by both) and none remains allocated once run has returned.
C26_TerminalReturn ==
    /\ [][C26_SlotsNotReused /\ C26_ReturnStep]_vars
    /\ [](/\ status = "done" => AllocatedSet(gc) = {}
          /\ \A i, j \in DOMAIN log : i < j => Swept(i) \cap Swept(j) = {})

\* run has returned after a collection that freed some objects and kept
\* others, which the terminal Return freed.
C26_Witness ==
    /\ status = "done"
    /\ Len(frames) = 1
    /\ log # <<>>
    /\ Swept(1) # {}
    /\ log[Len(log)].after # {}
    /\ AllocatedSet(gc) = {}

\* The compiler is about to run the piece of `rule` at position pc, and is
\* still compiling afterwards.
RuleStep(rule, pc) ==
    /\ status = "compiling" /\ status' = "compiling"
    /\ rule_stack # <<>> /\ Top.rule = rule /\ Top.pc = pc

\* The step declares a local of the current function.
DeclaresLocal ==
    /\ RuleStep("var_decl", 0) \/ RuleStep("function", 4)
    /\ Len(compiler'.function_stack) = Len(compiler.function_stack)
    /\ Len(locals(compiler')) = Len(locals(compiler)) + 1

\* The local the step declared.
Declared == locals(compiler')[Len(locals(compiler'))]

\* The locals of the current function that have the name, before the step.
Namesakes(name) == {i \in DOMAIN locals(compiler) : locals(compiler)[i].name = name}

DuplicateMessage == "there is already a variable with this name in this scope"

OwnInitialiserMessage == "can't reference local in its own initialiser"

\* A declaration whose name a local of the same depth has is an error; any
\* other declaration, one that shadows an enclosing scope included, is not
\* reported, and reports nothing at all when the name token is there.
C27_DeclareStep ==
    DeclaresLocal =>
        IF \E i \in Namesakes(Declared.name) :
              locals(compiler)[i].depth = scope_depth(compiler)
        THEN /\ compiler'.parser.had_error
             /\ ~compiler.parser.handling_error =>
                   errors' = Append(errors, DuplicateMessage)
        ELSE /\ errors' # errors => errors'[Len(errors')] # DuplicateMessage
             /\ compiler.parser.current.kind = "Ident" => errors' = errors

\* Reading a name whose innermost local is not initialised yet is an error.
C27_ReadStep ==
    /\ RuleStep("identifier", 0)
    /\ Namesakes(previous_lexeme(compiler)) # {}
    /\ \E i \in Namesakes(previous_lexeme(compiler)) :
          /\ \A k \in Namesakes(previous_lexeme(compiler)) : k <= i
          /\ locals(compiler)[i].depth < 0
    => /\ compiler'.parser.had_error
       /\ ~compiler.parser.handling_error =>
             errors' = Append(errors, OwnInitialiserMessage)

\* An error once reported stays: the program is never run.
C27_ErrorStays ==
    status = "compiling" /\ compiler.parser.had_error =>
        /\ status' # "running"
        /\ status' = "compiling" => compiler'.parser.had_error

\* C27: declaring a local whose name a local of the same scope depth of the
\* same function has (two parameters included) is a compile error; reading
\* a local inside its own initialiser is a compile error; redeclaring in an
\* inner scope a name of an enclosing scope is accepted.
C27_LocalDeclarationErrors ==
    [][C27_DeclareStep /\ C27_ReadStep /\ C27_ErrorStays]_vars

\* The inner block has redeclared a without a report, and both errors have
\* been reported: b read in its initialiser, a declared twice in the outer
\* block.
C27_Witness ==
    /\ source = ShadowProgram
    /\ errors = <<OwnInitialiserMessage, DuplicateMessage>>
    /\ status = "compile_error"

\* The bytes the step appended to the chunk of the current function.
Emitted ==
    SubSeq(chunk(compiler').code, Len(chunk(compiler).code) + 1,
           Len(chunk(compiler').code))

\* The local of the current function declared last among those of the name.
Innermost(name) ==
    CHOOSE i \in Namesakes(name) : \A k \in Namesakes(name) : k <= i

\* What the name resolves to: <<the opcode, its operand>>.
Resolved(name, local_op, global_op) ==
    IF Namesakes(name) # {}
    THEN <<OpCode(local_op), Innermost(name) - 1>>
    ELSE <<OpCode(global_op),
           name_lookup(compiler'.vm.globals.global_names, name)>>

\* The identifier is read: GetLocal or GetGlobal is emitted.
C28_ReadStep ==
    RuleStep("identifier", 2) /\ ~compare_next(compiler, "Equal") =>
        Emitted = Resolved(previous_lexeme(compiler), "GetLocal", "GetGlobal")

\* The identifier is assigned: SetLocal or SetGlobal is kept with its operand
\* while the right side is compiled, and emitted after it.
C28_WriteStep ==
    /\ RuleStep("identifier", 2) /\ compare_next(compiler, "Equal") =>
          <<OpCode(rule_stack'[Len(rule_stack)].a[1]),
            rule_stack'[Len(rule_stack)].a[2]>> =
             Resolved(previous_lexeme(compiler), "SetLocal", "SetGlobal")
    /\ RuleStep("identifier", 1) =>
          Emitted = <<OpCode(Top.a[1]), Top.a[2]>>

\* Every global name is interned once: the slot of a name is the one its
\* only entry of global_names gives.
C28_Interned ==
    status = "compiling" /\ compiler.status # "none" =>
        LET names == compiler.vm.globals.global_names
        IN \A i, j \in DOMAIN names : names[i][1] = names[j][1] => i = j

\* C28: an identifier resolves to the most recently declared local of its
\* name in the locals of the current function and compiles to GetLocal or
\* SetLocal with that local's index; when the current function has no such
\* local, whatever enclosing functions and blocks declare, it compiles to
\* GetGlobal or SetGlobal on the interned global slot of the name.
C28_NameResolution ==
    /\ [][C28_ReadStep /\ C28_WriteStep]_vars
    /\ []C28_Interned

\* The chunk has the instruction op with the operand arg.
HasInstruction(code, op, arg) ==
    \E k \in 1..Len(code) - 1 : code[k] = OpCode(op) /\ code[k + 1] = arg

\* The chunk of f is finished: it reads and assigns the global a although
\* the enclosing block declares a local a, writes and reads the b of its
\* inner block (local 1) there, and reads its parameter b (local 0) after
\* that block.
C28_Witness ==
    /\ source = ResolveProgram
    /\ status = "done"
    /\ \E i \in DOMAIN chunks :
          LET a == name_lookup(globals.global_names, "a")
          IN /\ a >= 0
             /\ HasInstruction(chunks[i].code, "GetGlobal", a)
             /\ HasInstruction(chunks[i].code, "SetGlobal", a)
             /\ HasInstruction(chunks[i].code, "SetLocal", 1)
             /\ HasInstruction(chunks[i].code, "GetLocal", 1)
             /\ HasInstruction(chunks[i].code, "GetLocal", 0)

\* The function object a finished chunk became has the peak of its
\* compiling function as stack_effect, and the peak is 10 plus the largest
\* number of locals initialised at the same time.
PeakRecorded(f) ==
    /\ f.peak_stack_effect = 10 + f.most_locals
    /\ f.stack_effect = f.peak_stack_effect

\* push_call_frame reserves, and pop_call_frame releases, stack_effect slots
\* of the function of the frame.
C31_FrameStep ==
    /\ status = "running" /\ status' = "running"
    /\ Allocated(gc, frames'[Len(frames')].function)
    /\ Allocated(gc, CurFrame.function)
    => /\ Len(frames') > Len(frames) =>
             stack'.max_use - stack.max_use =
                gc.objects[frames'[Len(frames')].function].stack_effect
       /\ Len(frames') < Len(frames) =>
             stack.max_use - stack'.max_use = CurFunction.stack_effect

\* C31: for every function object that reaches the VM, function literal
\* and top-level function alike, stack_effect is the peak stack effect of
\* its compiling function (10 plus the largest number of simultaneously
\* initialised locals), and push_call_frame reserves and pop_call_frame
\* releases that many slots.
C31_PeakStackEffect ==
    /\ [](\A i \in DOMAIN chunks : PeakRecorded(chunks[i]))
    /\ [][C31_FrameStep]_vars

\* What holds: the statement for the function literals alone.
C31_LiteralsOnly ==
    /\ [](\A i \in DOMAIN chunks : chunks[i].is_function => PeakRecorded(chunks[i]))
    /\ [][C31_FrameStep]_vars

\* The number of operand bytes the arm of run for the opcode reads.
OperandBytes(op) ==
    CASE op \in {"LoadConstant", "DefineGlobal", "GetGlobal", "SetGlobal",
                 "GetLocal", "SetLocal", "Call"} -> 1
      [] op \in {"Jump", "JumpUp", "JumpIfFalse", "JumpIfFalseNoPop",
                 "JumpIfTrueNoPop"} -> 2
      [] op = "LoadConstantExt" -> 3
      [] OTHER -> 0

\* The instructions of the code from offset at on, as <<offset, opcode
\* name>>; a byte that is no opcode ends the list.
RECURSIVE Instructions(_, _)
Instructions(code, at) ==
    IF at >= Len(code) \/ code[at + 1] + 1 \notin DOMAIN OpNames THEN <<>>
    ELSE LET op == OpNames[code[at + 1] + 1]
         IN <<<<at, op>>>> \o Instructions(code, at + 1 + OperandBytes(op))

\* The names of the last n instructions of the chunk.
LastOps(f, n) ==
    LET is == Instructions(f.code, 0)
    IN [k \in 1..n |-> is[Len(is) - n + k][2]]

\* The offset of the k-th of the last n instructions of the chunk.
LastAt(f, n, k) ==
    LET is == Instructions(f.code, 0) IN is[Len(is) - n + k][1]

\* The emit position the j-th forward jump of the chunk was patched for.
TargetOf(f, j) ==
    f.targets[CHOOSE k \in DOMAIN f.patches : f.patches[k] = f.jumps[j]]

\* The values the programs print, each different from what another
\* grouping of its expression gives.
C32_Results ==
    /\ source \in {PrecedenceProgram, OrderProgram, LogicProgram} =>
          status \in {"start", "compiling", "running", "done"}
    /\ source = PrecedenceProgram /\ status = "done" =>
          out = <<"3", "7", "1", "1", "false", "true", "false", "-3", "-2">>
    /\ source = OrderProgram /\ status = "done" =>
          out = <<"1", "2", "3", "4", "-5", "4">>
    /\ source = LogicProgram /\ status = "done" => out = <<"false", "true">>

\* false || true && 1 == 2 is false || (true && (1 == 2)): both jumps are
\* patched for the end of the expression.  true && false || 1 < 2 is
\* (true && false) || (1 < 2): the jump of && is patched for the jump of ||.
C32_Logic ==
    source = LogicProgram /\ status \in {"running", "done"} =>
        LET f == chunks[Len(chunks)]
        IN /\ LastOps(f, 27) =
                 <<"LoadConstant", "JumpIfTrueNoPop", "Pop",
                   "LoadConstant", "JumpIfFalseNoPop", "Pop",
                   "LoadConstant", "LoadConstant", "Equal", "DefineGlobal",
                   "LoadConstant", "JumpIfFalseNoPop", "Pop", "LoadConstant",
                   "JumpIfTrueNoPop", "Pop",
                   "LoadConstant", "LoadConstant", "Less", "DefineGlobal",
                   "GetGlobal", "GetGlobal", "GetGlobal", "Call", "Pop",
                   "Null", "Return">>
           /\ Len(f.jumps) = 4
           /\ TargetOf(f, 1) = LastAt(f, 27, 10)
           /\ TargetOf(f, 2) = LastAt(f, 27, 10)
           /\ TargetOf(f, 3) = LastAt(f, 27, 15)
           /\ TargetOf(f, 4) = LastAt(f, 27, 20)

\* In these programs every Call finds a callable below its arguments.
C32_CalleeFirst ==
    source \in {PrecedenceProgram, OrderProgram, LogicProgram} /\ At("Call") =>
        IsFunctionValue(Callee) \/ IsNativeValue(Callee)

\* C32: the emitted bytecode evaluates operands left to right and groups
\* them by the binding powers || < && < == != < < <= > >= < + - < * / <
\* prefix ! - < call and index, binary operators of equal power grouping to
\* the left; in a call the callee is pushed before its arguments.
C32_Precedence == C32_Results /\ C32_Logic /\ C32_CalleeFirst

\* The program of the groupings has run and printed the value of each.
C32_Witness ==
    /\ source = PrecedenceProgram
    /\ status = "done"
    /\ out = <<"3", "7", "1", "1", "false", "true", "false", "-3", "-2">>

\* The instruction about to execute raises a runtime error.
RaisesError == status = "running" /\ status' = "runtime_error"

\* The lines of the bytes of the instruction about to execute.
InstructionLines ==
    {CurFunction.lines[k + 1] :
        k \in ip..(ip + OperandBytes(OpNames[Fetch + 1]))}

\* The line the runtime error of this step reports.
ReportedLine ==
    error_line([frames |-> frames', gc |-> gc', ip |-> ip'])

\* C33: when an instruction raises a runtime error, the line reported is
\* the line-table entry of a byte of the failing instruction, not that of a
\* following instruction, and the index used is within the chunk's code.
C33_ErrorStep ==
    RaisesError =>
        /\ error_offset([ip |-> ip']) \in 0..(Len(CurFunction.code) - 1)
        /\ ReportedLine \in InstructionLines

C33_ErrorLine == [][C33_ErrorStep]_vars

\* What holds: the index used is that of the first byte after the failing
\* instruction, which is within the code; a failing Call has stored that ip
\* in its frame.
C33_FollowingByte ==
    [][RaisesError =>
          /\ ip' = ip + 1 + OperandBytes(OpNames[Fetch + 1])
          /\ ip' < Len(CurFunction.code)
          /\ At("Call") => frames'[Len(frames')].ip = ip'
          /\ ReportedLine = CurFunction.lines[ip' + 1]]_vars

\* The compiler was aborted by a panic: a failed assertion, an unwrap of
\* None, or a slice out of range.
CompilerPanicked == compiler # NoCompiler /\ compiler.status = "panic"

\* C34: a token the grammar does not allow at its position, a missing
\* closing parenthesis and an expression that meets the end of the input
\* among them, is reported through the error path of the parser and never
\* aborts the compiler with a panic.  (A source whose first token is a
\* failure of the lexer is left out: Parser::new is another matter.)
C34_UnexpectedTokens ==
    Parser_new(source).current.ok => ~CompilerPanicked

\* The three conditional jumps.
ConditionalJumps == {"JumpIfFalse", "JumpIfFalseNoPop", "JumpIfTrueNoPop"}

\* A conditional jump raises no error whatever its operand is; it jumps to
\* the position it was patched for exactly when its operand is not true
\* (JumpIfFalse, JumpIfFalseNoPop) or is true (JumpIfTrueNoPop), and goes on
\* with the next instruction otherwise; JumpIfFalse pops its operand, the
\* other two leave it.
C35_JumpStep ==
    \A op \in ConditionalJumps :
        At(op) /\ sp > 0 =>
            /\ status' = "running"
            /\ ip' = (IF (op = "JumpIfTrueNoPop") = (TopValue = Value_TRUE)
                      THEN PatchTarget(ip + 1) ELSE ip + 3)
            /\ sp' = (IF op = "JumpIfFalse" THEN sp - 1 ELSE sp)

\* The bodies of if and while are skipped; 6 && 7 is 6, null || 8 is 8 and
\* "a" || false is false.
C35_Results ==
    source = NonBooleanProgram =>
        /\ status \in {"start", "compiling", "running", "done"}
        /\ status = "done" => out = <<"6", "8", "false">>

\* C35: JumpIfFalse, JumpIfFalseNoPop and JumpIfTrueNoPop raise no runtime
\* error on a non-boolean operand and treat every value other than true as
\* false: if and while with a non-boolean condition skip their body, a && b
\* with a non-boolean a yields a, a || b with a non-boolean a yields b.
C35_NonBooleanConditions == []C35_Results /\ [][C35_JumpStep]_vars

\* What holds: no conditional jump raises a runtime error, and each decides
\* by whether its operand is true.
C35_Decides ==
    [][\A op \in ConditionalJumps :
          At(op) /\ sp > 0 =>
              /\ status' # "runtime_error"
              /\ status' = "running" =>
                    /\ ip' # ip + 3 <=>
                          ((op = "JumpIfTrueNoPop") = (TopValue = Value_TRUE))
                    /\ sp' = (IF op = "JumpIfFalse" THEN sp - 1 ELSE sp)]_vars

\* What the compiler recorded of the chunk the current frame runs.
RunningChunk ==
    CHOOSE ch \in {chunks[n] : n \in DOMAIN chunks} : ch.code = CurFunction.code

\* The number of value-stack slots above the origin of the current frame.
Height == sp - CurFrame.fp_offset

\* The program compiled without an error and one of its functions runs.
RunsCompiled ==
    /\ errors = <<>>
    /\ status = "running"
    /\ Allocated(gc, CurFrame.function)

\* Where a statement begins, and where it has ended, the frame holds as
\* many slots as the function had locals there.
C36_Aligned ==
    RunsCompiled =>
        \A i \in DOMAIN RunningChunk.stmts :
            LET st == RunningChunk.stmts[i]
            IN /\ ip = st.at => Height = st.locals
               /\ st.ended /\ ip = st.end => Height = st.locals_after

\* A let at depth > 0 leaves one local more than it found, every other
\* statement as many.
C36_NetEffect ==
    errors = <<>> =>
        \A n \in DOMAIN chunks : \A i \in DOMAIN chunks[n].stmts :
            LET st == chunks[n].stmts[i]
            IN st.ended =>
                  st.locals_after - st.locals =
                     (IF st.kind = "Let" /\ st.depth > 0 THEN 1 ELSE 0)

\* GetLocal k pushes the slot k above the origin of the frame.
C36_GetLocalStep ==
    RunsCompiled /\ At("GetLocal") /\ Stepped =>
        /\ sp' = sp + 1
        /\ stack'.mem[sp] = stack.mem[CurFrame.fp_offset + Operand(1)]

Boundaries(code) ==
    LET is == Instructions(code, 0) IN {is[k][1] : k \in DOMAIN is}

\* An opcode is fetched at the first byte of an instruction of the chunk of
\* the current frame.
C37_AtInstruction == RunsCompiled => ip \in Boundaries(CurFunction.code)

\* Every finished chunk ends with the instructions Null, Return.
C37_ChunkEnd ==
    \A n \in DOMAIN chunks : LastOps(chunks[n], 2) = <<"Null", "Return">>

\* A jump that is taken lands on an instruction of the same chunk.
C37_JumpStep ==
    RunsCompiled /\ (TakesJump \/ At("JumpUp")) =>
        /\ status' = "running"
        /\ frames' = frames
        /\ ip' \in Boundaries(CurFunction.code)

\* C37: in every execution of a successfully compiled program ip points at
\* the first byte of an instruction of the current frame's function when an
\* opcode is fetched; every chunk ends with Null, Return; every taken jump
\* lands on an instruction boundary of the same chunk; no operand byte is
\* decoded as an opcode.
C37_IpInBounds ==
    /\ [](C37_AtInstruction /\ C37_ChunkEnd)
    /\ [][C37_JumpStep]_vars

(***************************************************************************)
(* C38: allocations made during compilation.                               *)
(***************************************************************************)
\* The objects the functions being compiled refer to: those in their
\* constant pools and in the pools of the functions emitted into these.
CompilePool ==
    ReachClosure(compiler.vm.gc,
                 UNION {Addrs(compiler.function_stack[k].function.constants) :
                          k \in DOMAIN compiler.function_stack})

\* C38: a collection triggered by an allocation made during compilation
\* never frees an object referenced from the constant pool of a function
\* still being compiled, or of a function already emitted into such a pool:
\* while the compiler is at work every such object is allocated.
C38_CompileAllocationsSurvive ==
    status = "compiling" =>
        \A p \in CompilePool : Allocated(compiler.vm.gc, p)

\* What holds instead: the collections made during compilation leave the
\* objects the global slots hold (the natives), and nothing else.
C38_OnlyGlobalsSurvive ==
    status = "compiling" =>
        \A i \in DOMAIN compiler.vm.log :
            compiler.vm.log[i].after = Addrs(compiler.vm.globals.globals)

(***************************************************************************)
(* C39: the interning of global names.                                     *)
(***************************************************************************)
GlobalTable == IF status = "compiling" THEN compiler.vm.globals ELSE globals

\* The global table exists: the compiler or the machine it returned is at
\* work.
Interning == status = "running" \/ (status = "compiling" /\ compiler.status # "none")

\* A step of the compiler leaves every entry of global_names as it is, and
\* adds one slot for every name it adds; outside define_natives, which fills
\* the slot at once, the new slot holds undef.
C39_InternStep ==
    status = "compiling" /\ status' = "compiling" /\ compiler.status # "none" =>
        LET old == compiler.vm.globals
            new == compiler'.vm.globals
        IN /\ Len(new.global_names) >= Len(old.global_names)
           /\ SubSeq(new.global_names, 1, Len(old.global_names)) = old.global_names
           /\ Len(new.globals) - Len(old.globals) =
                 Len(new.global_names) - Len(old.global_names)
           /\ rule_stack # <<>> /\ Top.rule # "define_natives" =>
                 \A k \in Len(old.globals) + 1 .. Len(new.globals) :
                     new.globals[k] = UNDEF

\* The same name has the same index on every call: it has one entry.
C39_OneEntry ==
    Interning =>
        \A i, j \in DOMAIN GlobalTable.global_names :
            GlobalTable.global_names[i][1] = GlobalTable.global_names[j][1] => i = j

\* Different names have different indices.
C39_Injective ==
    Interning =>
        \A i, j \in DOMAIN GlobalTable.global_names :
            GlobalTable.global_names[i][2] = GlobalTable.global_names[j][2] => i = j

\* C39: get_global_idx returns the same slot index for the same name on
\* every call and different indices for different names, for any number of
\* distinct global names a program uses (the ten natives included); the
\* index of an existing name never changes and the slot vector grows by
\* exactly one undef slot per new name.
C39_InterningInjective ==
    /\ [][C39_InternStep]_vars
    /\ [](C39_OneEntry /\ C39_Injective)

\* What holds instead: the index of the n-th name interned is n - 1 modulo
\* 256, so that the names from the 257th on share the slots of the first.
C39_IndexWraps ==
    /\ [][C39_InternStep]_vars
    /\ [](C39_OneEntry /\
          (Interning =>
             \A i \in DOMAIN GlobalTable.global_names :
                 GlobalTable.global_names[i][2] = (i - 1) % 256))

(***************************************************************************)
(* C40: the reservation of stack slots.                                    *)
(***************************************************************************)
\* The sum of stack_effect over the first n call frames.
RECURSIVE ReservedByFrames(_)
ReservedByFrames(n) ==
    IF n = 0 THEN 0
    ELSE gc.objects[frames[n].function].stack_effect + ReservedByFrames(n - 1)

\* The machine runs and the function of every frame is allocated.
FramesLive ==
    /\ status = "running"
    /\ \A i \in DOMAIN frames : Allocated(gc, frames[i].function)

C40_MaxUse == FramesLive => stack.max_use = ReservedByFrames(Len(frames))

C40_Capacity == FramesLive => stack.capacity >= stack.max_use

\* A step that grows the stack is a call, and leaves top at the offset from
\* base that the call found: the sp that Op::Call stored into it.
C40_GrowStep ==
    status = "running" /\ status' = "running" /\ stack'.capacity # stack.capacity =>
        /\ Len(frames') = Len(frames) + 1
        /\ stack'.top = sp
        /\ sp' = sp

\* C40: after every push_call_frame and pop_call_frame, stack.max_use is
\* the sum of stack_effect over all live call frames and the capacity of
\* the value stack is at least max_use, for every call depth and every
\* stack_effect a compiled function can have (10 to 266); growing the stack
\* keeps top at the same offset from base.
C40_StackReservation ==
    /\ [][C40_GrowStep]_vars
    /\ [](C40_MaxUse /\ C40_Capacity)

\* What holds instead: max_use is the sum and top is kept, and the capacity
\* is at least max_use while no live frame reserves more than the 256 slots
\* the stack starts with.
C40_ReservationWithinStart ==
    /\ [][C40_GrowStep]_vars
    /\ [](C40_MaxUse /\
          (FramesLive /\ (\A i \in DOMAIN frames :
                             gc.objects[frames[i].function].stack_effect <= 256)
             => stack.capacity >= stack.max_use))

====
